---- MODULE Spec2Model ----
(***************************************************************************)
(* Pi Sensor Dashboard backend: SensorManager (device registry, session    *)
(* scheduler) and WebSocketManager (broadcast hub), as an asyncio state    *)
(* machine.  One event loop runs every coroutine; a coroutine runs         *)
(* atomically from one suspension point (await that really suspends) to    *)
(* the next, so every action below is one such run.                        *)
(***************************************************************************)
EXTENDS Integers, Sequences, FiniteSets, TLC

VARIABLES
    is_initialized,   \* SensorManager._is_initialized
    board,            \* SensorManager._board
    sensors,          \* SensorManager._sensors : sensor id -> sensor instance
    sessions,         \* SensorManager._sessions : session id -> MeasurementSession
    tasks,            \* MeasurementSession._task : the asyncio task of the session
    lock_owner,       \* SensorManager._lock : the request holding it
    lock_waiters,     \* SensorManager._lock._waiters, FIFO
    call,             \* the request coroutines calling into the manager
    ncalls,           \* number of requests issued so far
    hw,               \* condition of the physical device behind a sensor name
    now,              \* the clock (datetime.utcnow / loop.time)
    connections,      \* WebSocketManager._connections
    delivered,        \* messages each websocket has been sent, by type
    nhub,             \* number of websocket connects so far
    nhw,              \* number of device condition changes so far
    endpoints,        \* the measurement_websocket coroutines alive, each in
                      \* "accept", "welcome" (inside connect) or "receive"
    wsstate,          \* condition of each websocket: how a send to it ends
    pass,             \* the broadcast_* calls in progress on the hub
    npass,            \* number of broadcast_* calls so far
    res               \* a DriverFactory call: its environment, input, result

vars == <<is_initialized, board, sensors, sessions, tasks, lock_owner,
          lock_waiters, call, ncalls, hw, now, connections, delivered, nhub, nhw,
          endpoints, wsstate, pass, npass, res>>

mgrVars == <<is_initialized, board, sensors, sessions, tasks, lock_owner,
             lock_waiters, call, ncalls, hw, now, nhw>>

hubVars == <<connections, delivered, nhub, endpoints, wsstate, pass, npass>>

\* the hub apart from the messages delivered
hubRest == <<connections, nhub, endpoints, wsstate, pass, npass>>

----------------------------------------------------------------------------
(* Bounds *)

MaxCalls == 4
MaxTime == 2
MaxConnects == 2
MaxHwChanges == 2
MaxPasses == 2
MaxClock == 4
MaxReads == 2

----------------------------------------------------------------------------
(* Values *)

Callers == {"c1", "c2"}
SessionIds == {"s1", "s2"}
SensorNames == {"a", "b"}
Sockets == {"w1", "w2"}

NoOwner == "nobody"
NoBoard == [board_type |-> "none", is_initialized |-> FALSE]
None == -1

\* class MeasurementStatus
IDLE == "idle"
STARTING == "starting"
RUNNING == "running"
PAUSED == "paused"
STOPPING == "stopping"
COMPLETED == "completed"
ERROR == "error"

MeasurementStatus == {IDLE, STARTING, RUNNING, PAUSED, STOPPING, COMPLETED, ERROR}

\* the driver_map of add_sensor: the only driver names it accepts
driver_map == {"DHT22Driver", "BMP280Driver"}

\* sensor configurations a request may carry ("DHT22" is the resolver's
\* name of the driver, which driver_map does not contain)
Configs ==
    { [name |-> "a", driver |-> "DHT22Driver"],
      [name |-> "a", driver |-> "BMP280Driver"],
      [name |-> "b", driver |-> "BMP280Driver"],
      [name |-> "b", driver |-> "DHT22"] }

SensorLists == { <<>>, <<"a">>, <<"a", "b">>, <<"b", "a">> }
Intervals == {1}
Durations == {None, 1}
BoardTypes == {"GPIO", "OTHER"}
HwStates == {"ok", "fault"}

\* ... and with the device answering a read attempt with a transient
\* RuntimeError (a failed checksum, a missed pulse)
DeviceStates == {"ok", "transient", "fault"}

\* the sensor lists and the durations (in intervals of 1) of timed sessions
TimedLists == { <<"a">>, <<"b">>, <<"a", "b">> }
TimedDurations == {2, 3}

\* the session id requests start sessions under (a stop may name any id)
StartIds == {"s1"}

\* the sensor names whose device fails and recovers
Flaky == {"a"}

\* number of entities a driver defines in initialize()
EntityCount(driver) == IF driver = "DHT22Driver" THEN 2 ELSE 3

EmptyMap == [x \in {} |-> 0]

\* a request coroutine that has not called yet. pre and found keep what a
\* call met: the status of the session a stop_measurement was for; the
\* Running sessions that read the sensor a remove_sensor took out, each
\* with the number of the first round it begins after that. wake and obj
\* are those of a read_sensor call suspended in DHT22Driver.read: the end
\* of its asyncio.sleep and the sensor instance it runs on; count is the
\* len() of the readings a read_sensor call returned
IdleCall ==
    [op |-> "none", pc |-> "idle", target |-> "-", driver |-> "-",
     ids |-> <<>>, interval |-> None, duration |-> None,
     ret |-> "-", log |-> "-", pre |-> "-", nested |-> "-", found |-> EmptyMap,
     wake |-> None, obj |-> None, count |-> None]

\* a finished request keeps what it returned (or raised) and the message it
\* logged last
DoneCall(cl, r, msg) ==
    [IdleCall EXCEPT !.op = cl.op, !.pc = "done", !.ret = r, !.log = msg]

\* message counts of a websocket, by the "type" of the message
MessageTypes == {"connected", "sensor_data", "status", "error"}
NoMessages == [connected |-> 0, sensor_data |-> 0, status |-> 0, error |-> 0]

\* a broadcast_* call that has returned, or was not made yet
NoPass == [kind |-> "-", sid |-> "-", snapshot |-> {}, pending |-> {},
           cur |-> "-", sent |-> {}, raised |-> {}, disconnected |-> {}]

\* the broadcast_* calls, in the order they are made
PassIds == 1..MaxPasses

\* no broadcast in progress
NoPasses == [p \in PassIds |-> NoPass]


\* no DriverFactory call
NoCall == [phase |-> "none"]

\* the task of a session: its position, the index of the sensor id it
\* reads, the readings of the round so far, the end of the sleep it is in,
\* the sensor instance whose read() it is suspended in, the start_time of
\* the loop, the cancellation requested, the rounds it has ended
NewTask ==
    [pc |-> "unstarted", idx |-> 0, batch |-> 0, wake |-> None, obj |-> None,
     t0 |-> None, must_cancel |-> FALSE, rounds |-> 0]

\* variant whose sessions are created in a terminal status
MeasurementSession_m(ids, interval, duration) ==
    [sensor_ids |-> ids, interval |-> interval, duration |-> duration,
     status |-> COMPLETED, start_time |-> None, end_time |-> None,
     readings_count |-> 0, error_count |-> 0]

\* MeasurementSession.__init__
MeasurementSession(ids, interval, duration) ==
    [sensor_ids |-> ids, interval |-> interval, duration |-> duration,
     status |-> IDLE, start_time |-> None, end_time |-> None,
     readings_count |-> 0, error_count |-> 0]

----------------------------------------------------------------------------
(* SensorManager.__init__, WebSocketManager.__init__ *)

InitBase ==
    /\ is_initialized = FALSE
    /\ board = NoBoard
    /\ sensors = EmptyMap
    /\ sessions = EmptyMap
    /\ tasks = EmptyMap
    /\ lock_owner = NoOwner
    /\ lock_waiters = <<>>
    /\ call = [c \in Callers |-> IdleCall]
    /\ ncalls = 0
    /\ hw = [n \in SensorNames |-> "ok"]
    /\ now = 0
    /\ connections = EmptyMap
    /\ delivered = [w \in Sockets |-> NoMessages]
    /\ nhub = 0
    /\ nhw = 0
    /\ endpoints = EmptyMap
    /\ wsstate = [w \in Sockets |-> "ok"]
    /\ pass = NoPasses
    /\ npass = 0

\* ... and no DriverFactory call made
Init == InitBase /\ res = NoCall

----------------------------------------------------------------------------
(* asyncio.Lock: acquire takes a free lock, otherwise the caller joins the *)
(* FIFO of waiters and holds the lock once it is handed over; release      *)
(* hands the lock to the first waiter.                                     *)

CanInvoke(c) ==
    /\ call[c].pc \in {"idle", "done"}
    /\ ncalls < MaxCalls

\* the lock is taken: the caller stays in the FIFO of _lock._waiters
Enqueue(c, cl) ==
    /\ lock_owner' = lock_owner
    /\ lock_waiters' = Append(lock_waiters, c)
    /\ call' = [call EXCEPT ![c] = [cl EXCEPT !.pc = "wait"]]
    /\ UNCHANGED <<is_initialized, board, sensors, sessions, tasks>>

\* leaving `async with self._lock` with the calls updated to newcall
Release(newcall) ==
    IF lock_waiters = <<>>
    THEN /\ lock_owner' = NoOwner
         /\ lock_waiters' = lock_waiters
         /\ call' = newcall
    ELSE /\ lock_owner' = Head(lock_waiters)
         /\ lock_waiters' = Tail(lock_waiters)
         /\ call' = [newcall EXCEPT ![Head(lock_waiters)].pc = "body"]

\* the request cl of caller c returns r, having logged msg, and releases
\* the lock
Return(c, cl, r, msg) == Release([call EXCEPT ![c] = DoneCall(cl, r, msg)])

\* the request cl of caller c suspends at position pc, holding the lock
Suspend(c, cl, pc) ==
    /\ lock_owner' = c
    /\ lock_waiters' = lock_waiters
    /\ call' = [call EXCEPT ![c] = [cl EXCEPT !.pc = pc]]

----------------------------------------------------------------------------
(* SensorManager.initialize *)

\* what the creation and the initialize() of the board come to: the board
\* initializes, its initialize() answers False, or the import of the board
\* class inside the `try` raises (RPi.GPIO off its platform)
BoardOutcomes == {"ok", "failed", "raised"}

\* initialize(board_type, board_config): the board is assigned before it
\* is initialized; an exception leaves self._board as it was
initialize(c, cl, outcome) ==
    /\ IF cl.target \in {"GPIO", "CUSTOM"}
       THEN IF outcome = "raised"
            THEN /\ UNCHANGED <<board, is_initialized>>
                 /\ Return(c, cl, "False", "Failed to initialize sensor manager")
            ELSE /\ board' = [board_type |-> cl.target,
                              is_initialized |-> (outcome = "ok")]
                 /\ is_initialized' = (is_initialized \/ outcome = "ok")
                 /\ IF outcome = "ok"
                    THEN Return(c, cl, "True", "Sensor manager initialized")
                    ELSE Return(c, cl, "False", "Failed to initialize board")
       ELSE /\ UNCHANGED <<board, is_initialized>>
            /\ Return(c, cl, "False", "Unknown board type")
    /\ UNCHANGED <<sensors, sessions, tasks>>

----------------------------------------------------------------------------
(* SensorManager.add_sensor *)

\* variant where initialize() succeeds whatever the device
SensorInitialize_m(name) == TRUE

\* DHT22Driver.initialize / BMP280Driver.initialize: fails when the library
\* or the device is unusable
SensorInitialize(name) == hw[name] # "fault"

\* DHT22Driver.connect / BMP280Driver.connect
SensorConnect(sensor_initialized) == sensor_initialized

\* variant without the duplicate check, every name taken as new
AlreadyRegistered_m(name) == FALSE

\* `if sensor_id in self._sensors`
AlreadyRegistered(name) == name \in DOMAIN sensors

\* variant that gives the lock up while it awaits the sensor
add_sensor_m(c, cl, raised) ==
    /\ IF ~is_initialized
       THEN Return(c, cl, "False", "Sensor manager not initialized")
       ELSE IF AlreadyRegistered(cl.target)
       THEN Return(c, cl, "False", "Sensor already exists")
       ELSE IF cl.driver \notin driver_map
       THEN Return(c, cl, "False", "Unknown sensor driver")
       ELSE IF raised
       THEN Return(c, cl, "False", "Failed to add sensor")
       ELSE IF ~SensorInitialize(cl.target)
       THEN Return(c, cl, "False", "Failed to initialize sensor")
       ELSE Release([call EXCEPT ![c] = [cl EXCEPT !.pc = "connect"]])
    /\ UNCHANGED <<is_initialized, board, sensors, sessions, tasks>>

\* add_sensor up to the end of `await sensor.initialize()`. raised: the
\* import of the driver module or the constructor of the driver raises
\* (the modules guard their hardware imports against ImportError only),
\* which the `except Exception` of add_sensor answers with False
add_sensor(c, cl, raised) ==
    /\ IF ~is_initialized
       THEN Return(c, cl, "False", "Sensor manager not initialized")
       ELSE IF AlreadyRegistered(cl.target)
       THEN Return(c, cl, "False", "Sensor already exists")
       ELSE IF cl.driver \notin driver_map
       THEN Return(c, cl, "False", "Unknown sensor driver")
       ELSE IF raised
       THEN Return(c, cl, "False", "Failed to add sensor")
       ELSE IF ~SensorInitialize(cl.target)
       THEN Return(c, cl, "False", "Failed to initialize sensor")
       ELSE Suspend(c, cl, "connect")
    /\ UNCHANGED <<is_initialized, board, sensors, sessions, tasks>>

\* the sensor instances of a name that a suspended read() still runs on,
\* called by the task of a session or by a read_sensor request
HeldObjects(name) ==
    { tasks[sid].obj : sid \in { x \in DOMAIN tasks :
          /\ tasks[x].pc = "read_wait"
          /\ sessions[x].sensor_ids[tasks[x].idx] = name } }
    \cup { call[c].obj : c \in { x \in Callers :
          /\ call[x].pc = "read_wait"
          /\ call[x].target = name } }

\* `sensor = driver_class(config)`: a new object, distinct from every
\* instance that is still referenced
NewObject(name) ==
    CHOOSE n \in 0..(Cardinality(SessionIds) + Cardinality(Callers)) :
        /\ n \notin HeldObjects(name)
        /\ \A m \in 0..(n - 1) : m \in HeldObjects(name)

\* a sensor instance that add_sensor registers: initialized, connected,
\* never read (_last_read_time = 0, long ago on the clock of the loop)
NewSensor(driver, obj) ==
    [driver |-> driver, is_connected |-> TRUE, last_read |-> None, obj |-> obj]

\* add_sensor from `await sensor.connect()` on
AddSensorConnect(c) ==
    /\ call[c].op = "add_sensor"
    /\ call[c].pc = "connect"
    /\ lock_owner = c
    /\ IF SensorConnect(TRUE)
       THEN /\ sensors' = (call[c].target :>
                             NewSensor(call[c].driver, NewObject(call[c].target)))
                           @@ sensors
            /\ Return(c, call[c], "True", "Sensor added successfully")
       ELSE /\ sensors' = sensors
            /\ Return(c, call[c], "False", "Failed to connect sensor")
    /\ UNCHANGED <<is_initialized, board, sessions, tasks, ncalls, hw, now, nhw>>
    /\ UNCHANGED <<hubVars, res>>

----------------------------------------------------------------------------
(* SensorManager.remove_sensor *)

\* the request cl of caller c returns True from remove_sensor and releases
\* the lock. The record of the call keeps the sessions that are Running
\* and have the sensor id in their list, each with the number of the
\* first round its task begins from now on: the round after the one it is
\* in, or after the last it ended
Removed(c, cl) ==
    LET ReadBy == { sid \in DOMAIN sessions :
                      /\ sessions[sid].status = RUNNING
                      /\ \E i \in 1..Len(sessions[sid].sensor_ids) :
                            sessions[sid].sensor_ids[i] = cl.target }
        NextRound(t) == IF t.pc \in {"read", "read_wait"}
                        THEN t.rounds + 2
                        ELSE t.rounds + 1
    IN  Release([call EXCEPT ![c] =
                    [DoneCall(cl, "True", "Sensor removed")
                        EXCEPT !.found = [sid \in ReadBy |->
                                             NextRound(tasks[sid])]]])

\* variant that refuses to remove a sensor a running session reads
remove_sensor_m(c, cl) ==
    /\ IF \/ cl.target \notin DOMAIN sensors
          \/ \E sid \in DOMAIN sessions :
                /\ sessions[sid].status = RUNNING
                /\ \E i \in 1..Len(sessions[sid].sensor_ids) :
                      sessions[sid].sensor_ids[i] = cl.target
       THEN /\ sensors' = sensors
            /\ Return(c, cl, "False", "Sensor not found")
       ELSE /\ sensors' = [n \in DOMAIN sensors \ {cl.target} |-> sensors[n]]
            /\ Removed(c, cl)
    /\ UNCHANGED <<is_initialized, board, sessions, tasks>>

\* remove_sensor: disconnect the sensor and delete it from the registry
remove_sensor(c, cl) ==
    /\ IF cl.target \notin DOMAIN sensors
       THEN /\ sensors' = sensors
            /\ Return(c, cl, "False", "Sensor not found")
       ELSE /\ sensors' = [n \in DOMAIN sensors \ {cl.target} |-> sensors[n]]
            /\ Removed(c, cl)
    /\ UNCHANGED <<is_initialized, board, sessions, tasks>>

----------------------------------------------------------------------------
(* SensorManager.start_measurement *)

\* variant that validates the first sensor id only
AllRegistered_m(ids) == Len(ids) = 0 \/ ids[1] \in DOMAIN sensors

\* the `# Validate sensors` loop finds no unregistered id
AllRegistered(ids) == \A i \in 1..Len(ids) : ids[i] \in DOMAIN sensors

\* variant without the check of the session id
SessionExists_m(sid) == FALSE

\* `if session_id in self._sessions`
SessionExists(sid) == sid \in DOMAIN sessions

\* variant that starts a new session under the id of a finished one
start_measurement_m(c, cl) ==
    /\ IF SessionExists(cl.target) /\ tasks[cl.target].pc \notin {"done", "cancelled"}
       THEN /\ UNCHANGED <<sessions, tasks>>
            /\ Return(c, cl, "ValueError", "Session already exists")
       ELSE IF ~AllRegistered(cl.ids)
       THEN /\ UNCHANGED <<sessions, tasks>>
            /\ Return(c, cl, "ValueError", "Sensor not found")
       ELSE /\ sessions' = (cl.target :>
                   MeasurementSession(cl.ids, cl.interval, cl.duration)) @@ sessions
            /\ tasks' = (cl.target :> NewTask) @@ tasks
            /\ Return(c, cl, "session", "Measurement session started")
    /\ UNCHANGED <<is_initialized, board, sensors>>

\* SensorManager.start_measurement
start_measurement(c, cl) ==
    /\ IF SessionExists(cl.target)
       THEN /\ UNCHANGED <<sessions, tasks>>
            /\ Return(c, cl, "ValueError", "Session already exists")
       ELSE IF ~AllRegistered(cl.ids)
       THEN /\ UNCHANGED <<sessions, tasks>>
            /\ Return(c, cl, "ValueError", "Sensor not found")
       ELSE /\ sessions' = (cl.target :>
                   MeasurementSession(cl.ids, cl.interval, cl.duration)) @@ sessions
            /\ tasks' = (cl.target :> NewTask) @@ tasks
            /\ Return(c, cl, "session", "Measurement session started")
    /\ UNCHANGED <<is_initialized, board, sensors>>

----------------------------------------------------------------------------
(* SensorManager.stop_measurement *)

TaskDone(t) == t.pc \in {"done", "cancelled"}

\* variant whose cancel() has no effect on the task
TaskCancel_m(t) == t

\* asyncio.Task.cancel(): no effect on a finished task, otherwise a
\* CancelledError is thrown into the coroutine at its next step
TaskCancel(t) == IF TaskDone(t) THEN t ELSE [t EXCEPT !.must_cancel = TRUE]

\* variant that finalizes the session it stops
stop_measurement_m(c, cl) ==
    /\ IF cl.target \notin DOMAIN sessions
       THEN /\ tasks' = tasks
            /\ sessions' = sessions
            /\ Return(c, cl, "False", "Session not found")
       ELSE LET seen == [cl EXCEPT !.pre = sessions[cl.target].status]
            IN  /\ tasks' = [tasks EXCEPT ![cl.target] = TaskCancel(@)]
                /\ sessions' = [sessions EXCEPT ![cl.target].status = COMPLETED,
                                                ![cl.target].end_time = now]
                /\ IF TaskDone(tasks[cl.target])
                   THEN Return(c, seen, "True", "Measurement session stopped")
                   ELSE Suspend(c, seen, "await_task")
    /\ UNCHANGED <<is_initialized, board, sensors>>

\* stop_measurement up to `await session._task`; pre records the status the
\* session had when the stop was processed
stop_measurement(c, cl) ==
    /\ IF cl.target \notin DOMAIN sessions
       THEN /\ tasks' = tasks
            /\ Return(c, cl, "False", "Session not found")
       ELSE LET seen == [cl EXCEPT !.pre = sessions[cl.target].status]
            IN  /\ tasks' = [tasks EXCEPT ![cl.target] = TaskCancel(@)]
                /\ IF TaskDone(tasks[cl.target])
                   THEN Return(c, seen, "True", "Measurement session stopped")
                   ELSE Suspend(c, seen, "await_task")
    /\ UNCHANGED <<is_initialized, board, sensors, sessions>>

\* `await session._task` resumes once the task has finished
StopMeasurementResume(c) ==
    /\ call[c].op = "stop_measurement"
    /\ call[c].pc = "await_task"
    /\ lock_owner = c
    /\ TaskDone(tasks[call[c].target])
    /\ Return(c, call[c], "True", "Measurement session stopped")
    /\ UNCHANGED <<is_initialized, board, sensors, sessions, tasks, ncalls, hw, now, nhw>>
    /\ UNCHANGED <<hubVars, res>>

----------------------------------------------------------------------------
(* SensorManager.shutdown *)

\* `if self._board: await self._board.cleanup()`: the cleanup of a board
\* clears its flag when nothing raised (ok); when its hardware raises it
\* logs, returns False and leaves the flag
BoardCleanup(b, ok) ==
    IF b = NoBoard \/ ~ok THEN b ELSE [b EXCEPT !.is_initialized = FALSE]

\* shutdown holds self._lock and calls stop_measurement / remove_sensor,
\* whose own `async with self._lock` then waits for that same lock; with
\* no session and no sensor it cleans the board up, ignores the result and
\* clears the flag of the manager
shutdown(c, cl, ok) ==
    /\ IF DOMAIN sessions # {}
       THEN /\ lock_owner' = c
            /\ lock_waiters' = Append(lock_waiters, c)
            /\ call' = [call EXCEPT ![c] = [cl EXCEPT !.pc = "nested_wait",
                                                      !.nested = "stop_measurement"]]
            /\ UNCHANGED <<board, is_initialized>>
       ELSE IF DOMAIN sensors # {}
       THEN /\ lock_owner' = c
            /\ lock_waiters' = Append(lock_waiters, c)
            /\ call' = [call EXCEPT ![c] = [cl EXCEPT !.pc = "nested_wait",
                                                      !.nested = "remove_sensor"]]
            /\ UNCHANGED <<board, is_initialized>>
       ELSE /\ board' = BoardCleanup(board, ok)
            /\ is_initialized' = FALSE
            /\ Return(c, cl, "True", "Sensor manager shut down")
    /\ UNCHANGED <<sensors, sessions, tasks>>

----------------------------------------------------------------------------
(* Requests: every operation starts with `async with self._lock` and runs  *)
(* its body holding the lock                                               *)

\* the body of request cl of caller c, from the acquired lock to the next
\* suspension or the return
Body(c, cl) ==
    \/ /\ cl.op = "initialize"
       /\ \E outcome \in BoardOutcomes : initialize(c, cl, outcome)
    \/ /\ cl.op = "add_sensor"
       /\ \E raised \in BOOLEAN : add_sensor(c, cl, raised)
    \/ /\ cl.op = "remove_sensor"
       /\ remove_sensor(c, cl)
    \/ /\ cl.op = "start_measurement"
       /\ start_measurement(c, cl)
    \/ /\ cl.op = "stop_measurement"
       /\ stop_measurement(c, cl)
    \/ /\ cl.op = "shutdown"
       /\ \E ok \in BOOLEAN : shutdown(c, cl, ok)

\* the requests the transport layer may issue
Requests ==
    { [IdleCall EXCEPT !.op = "initialize", !.target = bt] : bt \in BoardTypes }
    \cup { [IdleCall EXCEPT !.op = "shutdown"] }
    \cup { [IdleCall EXCEPT !.op = "add_sensor", !.target = cfg.name,
                            !.driver = cfg.driver] : cfg \in Configs }
    \cup { [IdleCall EXCEPT !.op = "remove_sensor", !.target = n] : n \in SensorNames }
    \cup { [IdleCall EXCEPT !.op = "start_measurement", !.target = r[1], !.ids = r[2],
                            !.interval = r[3], !.duration = r[4]] :
              r \in StartIds \X SensorLists \X Intervals \X Durations }
    \cup { [IdleCall EXCEPT !.op = "stop_measurement", !.target = sid] : sid \in SessionIds }

\* a new request arrives at caller c and finds the lock free
InvokeFree(c, cl) ==
    /\ CanInvoke(c)
    /\ lock_owner = NoOwner
    /\ ncalls' = ncalls + 1
    /\ Suspend(c, cl, "body")
    /\ UNCHANGED <<is_initialized, board, sensors, sessions, tasks, hw, now, nhw>>
    /\ UNCHANGED <<hubVars, res>>

\* a new request arrives at caller c and finds the lock taken
InvokeWait(c, cl) ==
    /\ CanInvoke(c)
    /\ lock_owner # NoOwner
    /\ ncalls' = ncalls + 1
    /\ Enqueue(c, cl)
    /\ UNCHANGED <<hw, now, nhw>>
    /\ UNCHANGED <<hubVars, res>>

\* a request that holds the lock runs its body
Run(c) ==
    /\ call[c].pc = "body"
    /\ lock_owner = c
    /\ Body(c, call[c])
    /\ UNCHANGED <<ncalls, hw, now, nhw>>
    /\ UNCHANGED <<hubVars, res>>

----------------------------------------------------------------------------
(* SensorManager._measurement_loop, one action per run of the session task *)
(* between two suspension points                                           *)

\* DHT22Driver.read has `except RuntimeError` return two readings of
\* quality 0.0 in place of the exception; BMP280Driver.read re-raises
Degrades(driver) == driver = "DHT22Driver"

\* DHT22Driver._min_read_interval, in seconds
MinReadInterval == 2

\* the access to the device raises out of read(): another exception than
\* the RuntimeError a DHT22Driver turns into readings
DeviceRaises(name, driver) ==
    \/ hw[name] = "fault"
    \/ hw[name] = "transient" /\ ~Degrades(driver)

\* DHT22Driver.read, `if current_time - self._last_read_time <
\* self._min_read_interval`: the read suspends in asyncio.sleep until the
\* interval since the last access to the device is over. The first read of
\* an instance and every read of a BMP280Driver do not suspend
ReadWaits(name) ==
    /\ name \in DOMAIN sensors
    /\ sensors[name].is_connected
    /\ sensors[name].driver = "DHT22Driver"
    /\ sensors[name].last_read # None
    /\ now - sensors[name].last_read < MinReadInterval

\* SensorManager.read_sensor -> sensor.read() raises in the run that calls
\* it: the sensor is not registered (ValueError), not connected
\* (RuntimeError) or the access to the device raises and the driver lets
\* the exception through
ReadRaises(name) ==
    \/ name \notin DOMAIN sensors
    \/ /\ name \in DOMAIN sensors
       /\ \/ ~sensors[name].is_connected
          \/ ~ReadWaits(name) /\ DeviceRaises(name, sensors[name].driver)

\* len(readings) of a read that returns: the two readings of quality 0 of
\* a DHT22Driver whose device raised RuntimeError, otherwise one reading
\* for every entity less those that validate_reading drops because the
\* value is outside [min_value, max_value]
ReadCounts(name, driver) ==
    IF hw[name] = "transient"
    THEN {EntityCount(driver)}
    ELSE 0..EntityCount(driver)

\* the registry after the device access of a read() that did not raise, on
\* the instance obj of the name: DHT22Driver.read sets _last_read_time once
\* it has both values (upd), an instance that was removed from the registry
\* meanwhile is not in it
AfterAccess(name, obj, upd) ==
    IF /\ upd
       /\ name \in DOMAIN sensors
       /\ sensors[name].obj = obj
       /\ sensors[name].driver = "DHT22Driver"
    THEN [sensors EXCEPT ![name].last_read = now]
    ELSE sensors

\* SensorManager._broadcast_readings(session_id, readings): `pass`
SM_broadcast_readings(d, sid, n) == d

\* variant that ends the session once the duration is exceeded
DurationElapsed_m(sess, t0) ==
    /\ sess.duration # None
    /\ sess.duration # 0
    /\ now - t0 > sess.duration

\* `if session.duration:` and `elapsed >= session.duration`
DurationElapsed(sess, t0) ==
    /\ sess.duration # None
    /\ sess.duration # 0
    /\ now - t0 >= sess.duration

\* variant where a failed round ends the session in ERROR
SessionAfterRound_m(sess, failed, batch, t0) ==
    IF failed
    THEN [sess EXCEPT !.status = ERROR, !.end_time = now]
    ELSE IF DurationElapsed(sess, t0)
         THEN [sess EXCEPT !.readings_count = @ + batch,
                           !.status = COMPLETED, !.end_time = now]
         ELSE [sess EXCEPT !.readings_count = @ + batch]

\* the end of one round: the counters, then the duration check
SessionAfterRound(sess, failed, batch, t0) ==
    LET counted == IF failed
                   THEN [sess EXCEPT !.error_count = @ + 1]
                   ELSE [sess EXCEPT !.readings_count = @ + batch]
    IN  IF DurationElapsed(sess, t0)
        THEN [counted EXCEPT !.status = COMPLETED, !.end_time = now]
        ELSE counted

\* ... and the task: finished, or in asyncio.sleep(session.interval)
TaskAfterRound(sess, t) ==
    IF DurationElapsed(sess, t.t0)
    THEN [t EXCEPT !.pc = "done", !.idx = 0, !.batch = 0, !.wake = None,
                   !.obj = None, !.rounds = @ + 1]
    ELSE [t EXCEPT !.pc = "sleep", !.idx = 0, !.batch = 0,
                   !.wake = now + sess.interval, !.obj = None,
                   !.rounds = @ + 1]

\* top of `while session.status == RUNNING`: the first read, or with no
\* sensor to read the whole round
LoopTop(sid, sess, t) ==
    IF Len(sess.sensor_ids) = 0
    THEN /\ sessions' = [sessions EXCEPT ![sid] = SessionAfterRound(sess, FALSE, 0, t.t0)]
         /\ tasks' = [tasks EXCEPT ![sid] = TaskAfterRound(sess, t)]
         /\ delivered' = SM_broadcast_readings(delivered, sid, 0)
    ELSE /\ sessions' = [sessions EXCEPT ![sid] = sess]
         /\ tasks' = [tasks EXCEPT ![sid] = [t EXCEPT !.pc = "read", !.idx = 1,
                                                      !.batch = 0, !.wake = None]]
         /\ delivered' = delivered

\* first step of the task: STARTING, start_time, RUNNING, then the loop
TaskStart(sid) ==
    /\ sid \in DOMAIN tasks
    /\ tasks[sid].pc = "unstarted"
    /\ ~tasks[sid].must_cancel
    /\ LoopTop(sid,
               [sessions[sid] EXCEPT !.status = RUNNING, !.start_time = now],
               [tasks[sid] EXCEPT !.t0 = now])
    /\ UNCHANGED <<is_initialized, board, sensors, lock_owner, lock_waiters,
                   call, ncalls, hw, now, nhw, hubRest, res>>

\* the loop after a read_sensor call of the task of session sid has ended:
\* an exception ends the round in `except Exception`, the last read that
\* returns ends it with the count and the broadcast, any other goes on to
\* the next sensor id; n is the len() of the readings returned
AfterRead(sid, raised, n) ==
    LET sess == sessions[sid]
        t == tasks[sid]
    IN  IF raised
        THEN /\ sessions' = [sessions EXCEPT ![sid] = SessionAfterRound(sess, TRUE, 0, t.t0)]
             /\ tasks' = [tasks EXCEPT ![sid] = TaskAfterRound(sess, t)]
             /\ delivered' = delivered
        ELSE IF t.idx = Len(sess.sensor_ids)
        THEN /\ sessions' = [sessions EXCEPT ![sid] =
                     SessionAfterRound(sess, FALSE, t.batch + n, t.t0)]
             /\ tasks' = [tasks EXCEPT ![sid] = TaskAfterRound(sess, t)]
             /\ delivered' = SM_broadcast_readings(delivered, sid, t.batch + n)
        ELSE /\ sessions' = sessions
             /\ tasks' = [tasks EXCEPT ![sid] =
                     [t EXCEPT !.pc = "read", !.idx = @ + 1, !.batch = @ + n,
                               !.wake = None, !.obj = None]]
             /\ delivered' = delivered

\* sensor.read() from the access to the device on, for the instance obj of
\* the name, and the loop after it
DeviceAccess(sid, name, driver, obj) ==
    IF DeviceRaises(name, driver)
    THEN /\ AfterRead(sid, TRUE, 0)
         /\ sensors' = sensors
    ELSE \E n \in ReadCounts(name, driver), upd \in BOOLEAN :
            /\ hw[name] = "ok" => upd
            /\ AfterRead(sid, FALSE, n)
            /\ sensors' = AfterAccess(name, obj, upd)

\* `readings = await self.read_sensor(sensor_id)` for the next sensor id: up
\* to the end of the read, or to the asyncio.sleep of DHT22Driver.read
ReadStep(sid) ==
    /\ sid \in DOMAIN tasks
    /\ tasks[sid].pc = "read"
    /\ ~tasks[sid].must_cancel
    /\ LET name == sessions[sid].sensor_ids[tasks[sid].idx]
       IN  IF name \notin DOMAIN sensors
           THEN /\ AfterRead(sid, TRUE, 0)
                /\ sensors' = sensors
           ELSE IF ~sensors[name].is_connected
           THEN /\ AfterRead(sid, TRUE, 0)
                /\ sensors' = sensors
           ELSE IF ReadWaits(name)
           THEN /\ tasks' = [tasks EXCEPT
                      ![sid].pc = "read_wait",
                      ![sid].wake = sensors[name].last_read + MinReadInterval,
                      ![sid].obj = sensors[name].obj]
                /\ UNCHANGED <<sensors, sessions, delivered>>
           ELSE DeviceAccess(sid, name, sensors[name].driver, sensors[name].obj)
    /\ UNCHANGED <<is_initialized, board, lock_owner, lock_waiters,
                   call, ncalls, hw, now, nhw, hubRest, res>>

\* the asyncio.sleep of DHT22Driver.read is over: the read goes on with the
\* access to the device, on the instance it was called on, whether that is
\* still registered or not
ReadResume(sid) ==
    /\ sid \in DOMAIN tasks
    /\ tasks[sid].pc = "read_wait"
    /\ ~tasks[sid].must_cancel
    /\ now >= tasks[sid].wake
    /\ DeviceAccess(sid, sessions[sid].sensor_ids[tasks[sid].idx],
                    "DHT22Driver", tasks[sid].obj)
    /\ UNCHANGED <<is_initialized, board, lock_owner, lock_waiters,
                   call, ncalls, hw, now, nhw, hubRest, res>>

\* sensor.read() from the access to the device on, for a read_sensor call
\* of caller c on the instance obj of the name: the call raises or returns
\* its readings
ReadSensorAccess(c, cl, name, driver, obj) ==
    IF DeviceRaises(name, driver)
    THEN /\ call' = [call EXCEPT ![c] = DoneCall(cl, "Exception", "-")]
         /\ sensors' = sensors
    ELSE \E n \in ReadCounts(name, driver), upd \in BOOLEAN :
            /\ hw[name] = "ok" => upd
            /\ call' = [call EXCEPT ![c] =
                           [DoneCall(cl, "returned", "-") EXCEPT !.count = n]]
            /\ sensors' = AfterAccess(name, obj, upd)

\* SensorManager.read_sensor(sensor_id) called by a request of its own:
\* it takes no lock, raises ValueError for an id that is not registered,
\* and otherwise is sensor.read(), up to its end or to the asyncio.sleep
\* of DHT22Driver.read
read_sensor(c, name) ==
    LET cl == [IdleCall EXCEPT !.op = "read_sensor", !.target = name]
    IN  /\ CanInvoke(c)
        /\ ncalls' = ncalls + 1
        /\ IF name \notin DOMAIN sensors
           THEN /\ call' = [call EXCEPT ![c] = DoneCall(cl, "ValueError", "-")]
                /\ sensors' = sensors
           ELSE IF ~sensors[name].is_connected
           THEN /\ call' = [call EXCEPT ![c] = DoneCall(cl, "RuntimeError", "-")]
                /\ sensors' = sensors
           ELSE IF ReadWaits(name)
           THEN /\ call' = [call EXCEPT ![c] =
                       [cl EXCEPT !.pc = "read_wait",
                                  !.wake = sensors[name].last_read + MinReadInterval,
                                  !.obj = sensors[name].obj]]
                /\ sensors' = sensors
           ELSE ReadSensorAccess(c, cl, name, sensors[name].driver,
                                 sensors[name].obj)
        /\ UNCHANGED <<is_initialized, board, sessions, tasks, lock_owner,
                       lock_waiters, hw, now, nhw, hubVars, res>>

\* the asyncio.sleep of DHT22Driver.read is over for the read_sensor call
\* of caller c: the read goes on with the access to the device, on the
\* instance it was called on
ReadSensorResume(c) ==
    /\ call[c].op = "read_sensor"
    /\ call[c].pc = "read_wait"
    /\ now >= call[c].wake
    /\ ReadSensorAccess(c, call[c], call[c].target, "DHT22Driver", call[c].obj)
    /\ UNCHANGED <<is_initialized, board, sessions, tasks, lock_owner,
                   lock_waiters, ncalls, hw, now, nhw, hubVars, res>>

\* asyncio.sleep(session.interval) is over
Wake(sid) ==
    /\ sid \in DOMAIN tasks
    /\ tasks[sid].pc = "sleep"
    /\ ~tasks[sid].must_cancel
    /\ now >= tasks[sid].wake
    /\ LoopTop(sid, sessions[sid], tasks[sid])
    /\ UNCHANGED <<is_initialized, board, sensors, lock_owner, lock_waiters,
                   call, ncalls, hw, now, nhw, hubRest, res>>

\* variant whose `except asyncio.CancelledError` resets the counters
CancelStep_m(sid) ==
    /\ sid \in DOMAIN tasks
    /\ tasks[sid].must_cancel
    /\ ~TaskDone(tasks[sid])
    /\ IF tasks[sid].pc = "unstarted"
       THEN /\ tasks' = [tasks EXCEPT ![sid].pc = "cancelled"]
            /\ sessions' = sessions
       ELSE /\ tasks' = [tasks EXCEPT ![sid].pc = "done", ![sid].idx = 0,
                                      ![sid].batch = 0, ![sid].wake = None,
                                      ![sid].obj = None]
            /\ sessions' = [sessions EXCEPT ![sid].status = STOPPING,
                                            ![sid].end_time = now,
                                            ![sid].readings_count = 0,
                                            ![sid].error_count = 0]
    /\ UNCHANGED <<is_initialized, board, sensors, lock_owner, lock_waiters,
                   call, ncalls, hw, now, nhw, hubVars, res>>

\* the CancelledError of Task.cancel() arrives: thrown into a coroutine that
\* has not started it ends the task before the `try:` is entered; thrown at
\* an await inside the loop (the sleep of the interval, the sleep inside
\* DHT22Driver.read) it reaches `except asyncio.CancelledError`
CancelStep(sid) ==
    /\ sid \in DOMAIN tasks
    /\ tasks[sid].must_cancel
    /\ ~TaskDone(tasks[sid])
    /\ IF tasks[sid].pc = "unstarted"
       THEN /\ tasks' = [tasks EXCEPT ![sid].pc = "cancelled"]
            /\ sessions' = sessions
       ELSE /\ tasks' = [tasks EXCEPT ![sid].pc = "done", ![sid].idx = 0,
                                      ![sid].batch = 0, ![sid].wake = None,
                                      ![sid].obj = None]
            /\ sessions' = [sessions EXCEPT ![sid].status = STOPPING,
                                            ![sid].end_time = now]
    /\ UNCHANGED <<is_initialized, board, sensors, lock_owner, lock_waiters,
                   call, ncalls, hw, now, nhw, hubVars, res>>

----------------------------------------------------------------------------
(* Environment: time passes, devices fail and recover *)

Tick ==
    /\ now < MaxTime
    /\ now' = now + 1
    /\ UNCHANGED <<is_initialized, board, sensors, sessions, tasks, lock_owner,
                   lock_waiters, call, ncalls, hw, nhw, hubVars, res>>

\* time passes, over the longer horizon of the timed sessions
ClockTick ==
    /\ now < MaxClock
    /\ now' = now + 1
    /\ UNCHANGED <<is_initialized, board, sensors, sessions, tasks, lock_owner,
                   lock_waiters, call, ncalls, hw, nhw, hubVars, res>>

\* the event loop has nothing to run: every request has returned, waits
\* for the lock (a request that holds the lock and waits for it again
\* included) or awaits a task that has not finished; every task has
\* finished or is, with no cancellation thrown into it, in an
\* asyncio.sleep that is not over, that of the interval or that of
\* DHT22Driver.read
LoopIdle ==
    /\ \A c \in Callers :
          \/ call[c].pc \in {"idle", "done", "wait", "nested_wait"}
          \/ /\ call[c].pc = "await_task"
             /\ ~TaskDone(tasks[call[c].target])
          \/ /\ call[c].pc = "read_wait"
             /\ now < call[c].wake
    /\ \A sid \in DOMAIN tasks :
          \/ TaskDone(tasks[sid])
          \/ /\ tasks[sid].pc \in {"sleep", "read_wait"}
             /\ ~tasks[sid].must_cancel
             /\ now < tasks[sid].wake

\* time passes only while the event loop is idle: every coroutine runs the
\* moment it is ready and takes no time
IdleTick == LoopIdle /\ ClockTick

HwChange(name, v) ==
    /\ nhw < MaxHwChanges
    /\ hw[name] # v
    /\ hw' = [hw EXCEPT ![name] = v]
    /\ nhw' = nhw + 1
    /\ UNCHANGED <<is_initialized, board, sensors, sessions, tasks, lock_owner,
                   lock_waiters, call, ncalls, now, hubVars, res>>

----------------------------------------------------------------------------
(* WebSocketManager *)

\* WebSocketManager.get_connection_count
get_connection_count(sid) ==
    IF sid \in DOMAIN connections THEN Cardinality(connections[sid]) ELSE 0

\* WebSocketManager.get_all_sessions
get_all_sessions == DOMAIN connections

\* a new websocket object: no endpoint serves it, no subscriber set and no
\* broadcast in progress holds it
FreshSocket(w) ==
    /\ \A x \in SessionIds : <<w, x>> \notin DOMAIN endpoints
    /\ \A x \in DOMAIN connections : w \notin connections[x]
    /\ \A p \in PassIds : w \notin pass[p].pending

\* measurement_websocket is called for a new websocket:
\* WebSocketManager.connect begins and suspends in `await websocket.accept()`
HubOpen(w, sid) ==
    /\ nhub < MaxConnects
    /\ FreshSocket(w)
    /\ nhub' = nhub + 1
    /\ endpoints' = endpoints @@ (<<w, sid>> :> "accept")
    /\ UNCHANGED <<connections, delivered, wsstate, pass, npass>>
    /\ UNCHANGED <<mgrVars, res>>

\* the subscriber sets after `self._connections[session_id].add(websocket)`
Register(conns, w, sid) ==
    IF sid \in DOMAIN conns
    THEN [conns EXCEPT ![sid] = @ \cup {w}]
    ELSE conns @@ (sid :> {w})

\* the endpoints after the coroutine serving w for sid has ended
EndpointGone(w, sid) ==
    [x \in DOMAIN endpoints \ {<<w, sid>>} |-> endpoints[x]]

\* WebSocketManager.connect from the end of `await websocket.accept()` to
\* its suspension in the send of the welcome message: the websocket is
\* registered under the lock; an accept that raises ends the endpoint, an
\* accept that never completes keeps it where it is
HubConnect(w, sid) ==
    /\ <<w, sid>> \in DOMAIN endpoints
    /\ endpoints[<<w, sid>>] = "accept"
    /\ wsstate[w] # "hung"
    /\ IF wsstate[w] = "ok"
       THEN /\ connections' = Register(connections, w, sid)
            /\ endpoints' = [endpoints EXCEPT ![<<w, sid>>] = "welcome"]
       ELSE /\ connections' = connections
            /\ endpoints' = EndpointGone(w, sid)
    /\ UNCHANGED <<delivered, nhub, wsstate, pass, npass>>
    /\ UNCHANGED <<mgrVars, res>>

\* the send of the welcome message ends: connect returns and
\* measurement_websocket enters its receive loop, or the send raises out of
\* connect, which measurement_websocket calls before its `try`, so that the
\* endpoint ends without a disconnect
HubWelcome(w, sid) ==
    /\ <<w, sid>> \in DOMAIN endpoints
    /\ endpoints[<<w, sid>>] = "welcome"
    /\ wsstate[w] # "hung"
    /\ IF wsstate[w] = "ok"
       THEN /\ delivered' = [delivered EXCEPT ![w].connected = @ + 1]
            /\ endpoints' = [endpoints EXCEPT ![<<w, sid>>] = "receive"]
       ELSE /\ delivered' = delivered
            /\ endpoints' = EndpointGone(w, sid)
    /\ UNCHANGED <<connections, nhub, wsstate, pass, npass>>
    /\ UNCHANGED <<mgrVars, res>>

\* variant that empties the subscriber set and keeps the entry
DropSession_m(conns, sid) == [conns EXCEPT ![sid] = {}]

\* `del self._connections[session_id]`
DropSession(conns, sid) == [x \in DOMAIN conns \ {sid} |-> conns[x]]

\* WebSocketManager.disconnect, called by measurement_websocket when its
\* receive loop ends
HubDisconnect(w, sid) ==
    /\ <<w, sid>> \in DOMAIN endpoints
    /\ endpoints[<<w, sid>>] = "receive"
    /\ endpoints' = EndpointGone(w, sid)
    /\ connections' = IF sid \notin DOMAIN connections
                      THEN connections
                      ELSE IF connections[sid] \ {w} = {}
                      THEN DropSession(connections, sid)
                      ELSE [connections EXCEPT ![sid] = @ \ {w}]
    /\ UNCHANGED <<delivered, nhub, wsstate, pass, npass>>
    /\ UNCHANGED <<mgrVars, res>>

\* a websocket stops taking messages: "hung" when a send to it never
\* completes, "dead" when a send to it raises
WsChange(w, v) ==
    /\ \/ wsstate[w] = "ok" /\ v \in {"hung", "dead"}
       \/ wsstate[w] = "hung" /\ v = "dead"
    /\ wsstate' = [wsstate EXCEPT ![w] = v]
    /\ UNCHANGED <<connections, delivered, nhub, endpoints, pass, npass>>
    /\ UNCHANGED <<mgrVars, res>>

\* the broadcasts that collect the websockets whose send raised, to remove
\* them afterwards: broadcast_readings does, broadcast_status and
\* broadcast_error `pass`
Collects(kind) == kind = "sensor_data"

\* broadcast_* up to its first send: nothing to do for an unknown session
\* id, otherwise the copy of the subscriber set taken under the lock. The
\* lock is released after the copy, so that any number of broadcasts are in
\* progress at a time; the call is the next of pass
Broadcast(kind, sid) ==
    /\ npass < MaxPasses
    /\ npass' = npass + 1
    /\ pass' = [pass EXCEPT ![npass + 1] =
                   IF sid \notin DOMAIN connections
                   THEN NoPass
                   ELSE [kind |-> kind, sid |-> sid, snapshot |-> connections[sid],
                         pending |-> connections[sid], cur |-> "-",
                         sent |-> {}, raised |-> {}, disconnected |-> {}]]
    /\ UNCHANGED <<connections, delivered, nhub, endpoints, wsstate>>
    /\ UNCHANGED <<mgrVars, res>>

\* WebSocketManager.broadcast_readings
broadcast_readings(sid) == Broadcast("sensor_data", sid)

\* WebSocketManager.broadcast_status
broadcast_status(sid) == Broadcast("status", sid)

\* WebSocketManager.broadcast_error
broadcast_error(sid) == Broadcast("error", sid)

\* `for websocket in connections` of broadcast p: the next websocket, in
\* the order the set iterates, and `await self._send_message(websocket,
\* message)` begins
SendBegin(p, w) ==
    /\ pass[p] # NoPass
    /\ pass[p].cur = "-"
    /\ w \in pass[p].pending
    /\ pass' = [pass EXCEPT ![p].cur = w]
    /\ UNCHANGED <<connections, delivered, nhub, endpoints, wsstate, npass>>
    /\ UNCHANGED <<mgrVars, res>>

\* variant where a send that raises ends the loop
AfterRaise_m(b) ==
    [b EXCEPT !.pending = {}, !.cur = "-", !.raised = @ \cup {b.cur}]

\* the `except` of the loop: the websocket is collected where the broadcast
\* collects, and the loop goes on with the other websockets
AfterRaise(b) ==
    [b EXCEPT !.pending = @ \ {b.cur}, !.cur = "-",
              !.raised = @ \cup {b.cur},
              !.disconnected = IF Collects(b.kind) THEN @ \cup {b.cur} ELSE @]

\* WebSocketManager._send_message of broadcast p returns, or raises into
\* the `except` of the loop; on a websocket that is hung it does neither
SendEnd(p) ==
    /\ pass[p] # NoPass
    /\ pass[p].cur # "-"
    /\ wsstate[pass[p].cur] # "hung"
    /\ IF wsstate[pass[p].cur] = "ok"
       THEN /\ delivered' = [delivered EXCEPT ![pass[p].cur][pass[p].kind] = @ + 1]
            /\ pass' = [pass EXCEPT ![p].pending = @ \ {pass[p].cur},
                                    ![p].cur = "-",
                                    ![p].sent = @ \cup {pass[p].cur}]
       ELSE /\ delivered' = delivered
            /\ pass' = [pass EXCEPT ![p] = AfterRaise(@)]
    /\ UNCHANGED <<connections, nhub, endpoints, wsstate, npass>>
    /\ UNCHANGED <<mgrVars, res>>

\* the subscriber sets after `# Remove disconnected clients`
AfterRemoval(conns, sid, disconnected) ==
    IF disconnected # {} /\ sid \in DOMAIN conns
    THEN [conns EXCEPT ![sid] = @ \ disconnected]
    ELSE conns

\* the loop of broadcast p is over: broadcast_* removes what it collected
\* and returns
BroadcastEnd(p) ==
    /\ pass[p] # NoPass
    /\ pass[p].cur = "-"
    /\ pass[p].pending = {}
    /\ connections' = AfterRemoval(connections, pass[p].sid, pass[p].disconnected)
    /\ pass' = [pass EXCEPT ![p] = NoPass]
    /\ UNCHANGED <<delivered, nhub, endpoints, wsstate, npass>>
    /\ UNCHANGED <<mgrVars, res>>

----------------------------------------------------------------------------
(* DriverFactory *)

\* DriverFactory._SENSOR_DRIVERS: driver name -> class of the real driver
SENSOR_DRIVERS ==
    [x \in {"DHT22", "DHT11", "BMP280", "BME280", "ADS1115", "Analog"} |->
        CASE x \in {"DHT22", "DHT11"} -> "DHT22Driver"
          [] x \in {"BMP280", "BME280"} -> "BMP280Driver"
          [] x = "ADS1115" -> "ADS1115Driver"
          [] x = "Analog" -> "AnalogDriver"]

\* DriverFactory._BOARD_DRIVERS
BOARD_DRIVERS == [x \in {"GPIO", "CUSTOM"} |->
                    IF x = "GPIO" THEN "GPIOBoard" ELSE "CustomBoard"]

\* the dummy_drivers of _create_dummy_sensor
dummy_drivers ==
    [x \in {"DHT22", "DHT11", "BMP280", "BME280"} |->
        IF x \in {"DHT22", "DHT11"} THEN "DHT22DummyDriver" ELSE "BMP280DummyDriver"]

\* the real driver classes whose module exists in app.sensors / app.boards
\* (the ADS1115 and Analog drivers are not implemented: ImportError)
ExistingClasses == {"DHT22Driver", "BMP280Driver", "GPIOBoard", "CustomBoard"}

DummySensorClasses == {"DHT22DummyDriver", "BMP280DummyDriver", "DummySensorDriver"}
DummyClasses == DummySensorClasses \cup {"DummyBoard"}

\* the result of a factory call that raises
Raises == "raise"

\* driver names and board types a configuration may carry
DriverNames == {"DHT22", "DHT11", "BMP280", "BME280", "ADS1115", "Analog",
                "DHT22Driver", "SCD41"}
FactoryBoardTypes == {"GPIO", "CUSTOM", "ARDUINO"}

\* the environments of a factory call: settings.use_dummy_drivers, the
\* platform, the hardware library of the real driver (not installed,
\* installed with the device answering, installed with the device failing),
\* whether the real driver class loads and constructs, whether the specific
\* dummy driver does, and whether the package app.boards imports: its
\* __init__ imports gpio_board and custom_board, which guard the import of
\* their hardware libraries against ImportError only (RPi.GPIO raises
\* RuntimeError at import on a machine that is no Raspberry Pi)
Environments ==
    [use_dummy_drivers : BOOLEAN, win32 : BOOLEAN,
     hwlib : {"none", "ok", "faulty"}, real_ok : BOOLEAN, specific_ok : BOOLEAN,
     boards_ok : BOOLEAN]

\* DriverFactory.should_use_dummy
should_use_dummy(env) == env.use_dummy_drivers \/ env.win32

\* `from app.sensors.dummy_sensor_driver import DummySensorDriver` and its
\* constructor: standard library and app.models only, nothing that an
\* environment can lack
GenericLoadable == TRUE

\* variant that goes to the generic dummy driver at once
create_dummy_sensor_m(driver, env) ==
    IF GenericLoadable THEN "DummySensorDriver" ELSE Raises

\* DriverFactory._create_dummy_sensor
create_dummy_sensor(driver, env) ==
    IF driver \in DOMAIN dummy_drivers /\ env.specific_ok
    THEN dummy_drivers[driver]
    ELSE IF GenericLoadable THEN "DummySensorDriver" ELSE Raises

\* DriverFactory.create_sensor
create_sensor(driver, env) ==
    IF should_use_dummy(env)
    THEN create_dummy_sensor(driver, env)
    ELSE IF driver \notin DOMAIN SENSOR_DRIVERS
    THEN create_dummy_sensor(driver, env)
    ELSE IF SENSOR_DRIVERS[driver] \notin ExistingClasses \/ ~env.real_ok
    THEN create_dummy_sensor(driver, env)
    ELSE SENSOR_DRIVERS[driver]

\* DriverFactory._create_dummy_board: `from app.boards.dummy_board import
\* DummyBoard` runs the __init__ of the package first, outside any `try`
create_dummy_board(board_type, env) ==
    IF env.boards_ok THEN "DummyBoard" ELSE Raises

\* DriverFactory.create_board: the import of the real board module runs
\* the same __init__, inside the `try` whose handlers call
\* _create_dummy_board
create_board(board_type, env) ==
    IF should_use_dummy(env)
    THEN create_dummy_board(board_type, env)
    ELSE IF board_type \notin DOMAIN BOARD_DRIVERS
    THEN create_dummy_board(board_type, env)
    ELSE IF \/ BOARD_DRIVERS[board_type] \notin ExistingClasses
            \/ ~env.boards_ok
            \/ ~env.real_ok
    THEN create_dummy_board(board_type, env)
    ELSE BOARD_DRIVERS[board_type]

\* the keys of pin_map in DHT22Driver.initialize
pin_map == {4, 17, 18, 27, 22, 23, 24, 25}

\* config.connection_params.get("pin"): absent, a pin of pin_map, another
ConfigPins == {None, 4, 5}

\* initialize() of an instance of the class: a real driver needs its
\* hardware library (DHT_AVAILABLE, BMP280_AVAILABLE, GPIO_AVAILABLE) and
\* a device that answers, the DHT22 driver also a pin of pin_map in its
\* configuration; a dummy driver needs nothing
InstanceInitialize(class, env, pin) ==
    IF class = "DHT22Driver"
    THEN env.hwlib = "ok" /\ pin # None /\ pin \in pin_map
    ELSE IF class \in ExistingClasses
    THEN env.hwlib = "ok"
    ELSE class \in DummyClasses

\* a factory call starts with its configuration (the pin of its
\* connection_params) and environment
FactoryInput(env, pin) == [phase |-> "input", env |-> env, pin |-> pin]

\* DriverFactory.create_sensor(config) is called
CreateSensor(driver) ==
    /\ res.phase = "input"
    /\ res' = [phase |-> "created", env |-> res.env, pin |-> res.pin,
               kind |-> "sensor",
               name |-> driver, class |-> create_sensor(driver, res.env),
               is_initialized |-> FALSE, is_connected |-> FALSE,
               ok |-> TRUE]
    /\ UNCHANGED <<mgrVars, hubVars>>

\* DriverFactory.create_board(config) is called
CreateBoard(board_type) ==
    /\ res.phase = "input"
    /\ res' = [phase |-> "created", env |-> res.env, pin |-> res.pin,
               kind |-> "board",
               name |-> board_type, class |-> create_board(board_type, res.env),
               is_initialized |-> FALSE, is_connected |-> FALSE,
               ok |-> TRUE]
    /\ UNCHANGED <<mgrVars, hubVars>>

\* initialize() on the instance the factory returned
InstanceInit ==
    /\ res.phase = "created"
    /\ res.class # Raises
    /\ LET done == InstanceInitialize(res.class, res.env, res.pin)
       IN  res' = [res EXCEPT !.phase = "initialized", !.is_initialized = done,
                              !.ok = done]
    /\ UNCHANGED <<mgrVars, hubVars>>

\* connect() on a sensor instance: fails unless initialized
InstanceConnect ==
    /\ res.phase = "initialized"
    /\ res.kind = "sensor"
    /\ res' = [res EXCEPT !.phase = "connected",
                          !.is_connected = SensorConnect(res.is_initialized),
                          !.ok = SensorConnect(res.is_initialized)]
    /\ UNCHANGED <<mgrVars, hubVars>>

\* read() on a sensor instance: raises unless connected
InstanceRead ==
    /\ res.phase = "connected"
    /\ res' = [res EXCEPT !.phase = "read", !.ok = res.is_connected]
    /\ UNCHANGED <<mgrVars, hubVars>>

----------------------------------------------------------------------------
(* The sensor drivers: entities, calibration, validation and read().       *)
(* Values are in tenths of the entity's unit, qualities in tenths.         *)

SensorClasses == {"DHT22Driver", "BMP280Driver", "DHT22DummyDriver",
                  "BMP280DummyDriver", "DummySensorDriver"}

\* connection_params["sensor_model"] of a DummySensorDriver
SensorModels == {"DHT22", "DHT11", "BMP280", "BME280", "ADS1115", "Analog", "SCD41"}

\* f"{self.config.name}_{key}"
EntityId(name, key) == <<name, key>>

SensorEntity(name, key, lo, hi) ==
    [id |-> EntityId(name, key), min_value |-> lo, max_value |-> hi]

\* self._entities as initialize() defines them
Entities(class, model, name) ==
    CASE class \in {"DHT22Driver", "DHT22DummyDriver"} ->
            << SensorEntity(name, "temperature", -400, 800),
               SensorEntity(name, "humidity", 0, 1000) >>
      [] class = "BMP280Driver" ->
            << SensorEntity(name, "temperature", -400, 850),
               SensorEntity(name, "pressure", 3000, 11000),
               SensorEntity(name, "altitude", -5000, 90000) >>
      [] class = "BMP280DummyDriver" ->
            << SensorEntity(name, "temperature", -400, 850),
               SensorEntity(name, "pressure", 3000, 11000) >>
      [] class = "DummySensorDriver" /\ model \in {"DHT22", "DHT11"} ->
            << SensorEntity(name, "temperature", -400, 800),
               SensorEntity(name, "humidity", 0, 1000) >>
      [] class = "DummySensorDriver" /\ model = "BMP280" ->
            << SensorEntity(name, "temperature", -400, 850),
               SensorEntity(name, "pressure", 3000, 11000) >>
      [] class = "DummySensorDriver" /\ model = "BME280" ->
            << SensorEntity(name, "temperature", -400, 850),
               SensorEntity(name, "pressure", 3000, 11000),
               SensorEntity(name, "humidity", 0, 1000) >>
      [] class = "DummySensorDriver" /\ model = "ADS1115" ->
            << SensorEntity(name, "channel_0", 0, 50),
               SensorEntity(name, "channel_1", 0, 50),
               SensorEntity(name, "channel_2", 0, 50),
               SensorEntity(name, "channel_3", 0, 50) >>
      [] class = "DummySensorDriver" /\ model = "Analog" ->
            << SensorEntity(name, "value", 0, 33) >>
      [] OTHER ->
            << SensorEntity(name, "value", 0, 1000) >>

EntityKeys == {"temperature", "humidity", "pressure", "altitude",
               "channel_0", "channel_1", "channel_2", "channel_3", "value"}

\* the keys of the entities of a driver
KeysOf(entities) == { entities[i].id[2] : i \in 1..Len(entities) }

\* calibration.get(key, default)
DictGet(dict, key, default) == IF key \in DOMAIN dict THEN dict[key] ELSE default

\* BaseSensor.apply_calibration; the keys of the calibration dict are
\* f"{entity_id}_offset" and f"{entity_id}_multiplier"
apply_calibration(calibration, value, entity_id) ==
    IF DOMAIN calibration = {}
    THEN value
    ELSE (value * DictGet(calibration, <<entity_id, "multiplier">>, 1))
         + DictGet(calibration, <<entity_id, "offset">>, 0)

\* BaseSensor.validate_reading
validate_reading(entities, reading) ==
    \E i \in 1..Len(entities) :
        /\ entities[i].id = reading.entity_id
        /\ \A j \in 1..(i - 1) : entities[j].id # reading.entity_id
        /\ ~(reading.value < entities[i].min_value)
        /\ ~(reading.value > entities[i].max_value)

\* max(lo, min(hi, value))
Clamp(value, lo, hi) ==
    LET upper == IF value < hi THEN value ELSE hi
    IN  IF upper > lo THEN upper ELSE lo

SensorReading(entity_id, value, quality) ==
    [entity_id |-> entity_id, value |-> value, quality |-> quality]

\* variant whose low-quality readings carry the ids of another sensor
DegradedReadings_m(name) ==
    << SensorReading(EntityId("-", "temperature"), 0, 0),
       SensorReading(EntityId("-", "humidity"), 0, 0) >>

\* DHT22Driver.read, `except RuntimeError`: two readings of value 0.0 and
\* quality 0.0
DegradedReadings(name) ==
    << SensorReading(EntityId(name, "temperature"), 0, 0),
       SensorReading(EntityId(name, "humidity"), 0, 0) >>

\* the readings read() builds from the values raw of the device (a real
\* driver) or of the generator, clamped to the entity's range (a dummy);
\* quality[i] is the quality of the reading of the i-th entity
BuiltReadings(class, entities, calibration, raw, quality) ==
    [i \in 1..Len(entities) |->
        LET e == entities[i]
            value == IF class \in DummySensorClasses
                     THEN Clamp(raw[e.id[2]], e.min_value, e.max_value)
                     ELSE raw[e.id[2]]
        IN  SensorReading(e.id, apply_calibration(calibration, value, e.id),
                          quality[i])]

\* quality of a dummy reading: 1.0, or 0.7 .. 0.9 in 5% of the draws
DummyQualities == {10, 8}

\* the qualities of the readings of one read(): 1.0 from a real driver, one
\* draw for the whole read in DHT22DummyDriver and BMP280DummyDriver, one
\* draw for every entity in DummySensorDriver
ReadQualities(class, n) ==
    CASE class = "DummySensorDriver" -> [1..n -> DummyQualities]
      [] class \in DummySensorClasses ->
            { [i \in 1..n |-> q] : q \in DummyQualities }
      [] OTHER -> { [i \in 1..n |-> 10] }

\* read() from the access to the device on: a real driver validates what
\* it built, a dummy driver returns it as built; dev is the outcome of the
\* access to the device
DeviceRead(d, dev, raw, quality) ==
    IF d.class \in DummySensorClasses
    THEN [out |-> "returned",
          readings |-> BuiltReadings(d.class, d.entities, d.calibration, raw, quality)]
    ELSE IF dev = "ok"
    THEN [out |-> "returned",
          readings |-> SelectSeq(BuiltReadings(d.class, d.entities, d.calibration,
                                               raw, quality),
                                 LAMBDA r : validate_reading(d.entities, r))]
    ELSE IF d.class = "DHT22Driver" /\ dev \in {"None", "RuntimeError"}
    THEN [out |-> "returned", readings |-> DegradedReadings(d.name)]
    ELSE [out |-> "raised", readings |-> <<>>]

\* what read() returns or raises when nothing suspends it:
\* `if not self._is_connected: raise RuntimeError`
SensorRead(d, dev, raw, quality) ==
    IF ~d.is_connected
    THEN [out |-> "raised", readings |-> <<>>]
    ELSE DeviceRead(d, dev, raw, quality)

\* values a device may deliver: below every range, inside the small
\* ranges, inside the large ones and above the small
RawValues == {-6000, 20, 5000}

\* values the generator of a dummy driver may come to before they are
\* clamped to the range of the entity
DummyRawValues == {20, 5000}

\* the values one read() gets, by the key of the entity
ReadValues(class, entities) ==
    [KeysOf(entities) ->
        IF class \in DummySensorClasses THEN DummyRawValues ELSE RawValues]

\* outcomes of the access to the device: values, a value of None, an
\* exception
DeviceOutcomes == {"ok", "None", "RuntimeError", "OSError"}

\* the entities a calibration of the model has an entry for
CalibrationKeys == {"temperature", "channel_1", "value"}

\* the key "sea_level_pressure" of a calibration, in the form of the keys
\* f"{entity_id}_offset"
SeaLevelPressure == <<EntityId("sea", "level"), "pressure">>

\* config.calibration: none, or an offset, a multiplier or both for one
\* entity, or the sea level pressure
Calibrations(name) ==
    {EmptyMap, (SeaLevelPressure :> 10000)}
    \cup { (<<EntityId(name, key), "offset">> :> 2000) : key \in CalibrationKeys }
    \cup { (<<EntityId(name, key), "multiplier">> :> 3) : key \in CalibrationKeys }
    \cup { (<<EntityId(name, key), "offset">> :> 10)
           @@ (<<EntityId(name, key), "multiplier">> :> 3) : key \in CalibrationKeys }

\* a sensor instance as constructed. device: the object disconnect()
\* releases exists (_dht_device, _i2c_bus); last_read: _last_read_time of a
\* DHT22Driver; waits: for every read() suspended in its asyncio.sleep, in
\* the order they suspended, the time that sleep is over; raw keeps the
\* values the last read() got from the device or the generator
NewDriver(class, model, name, calibration) ==
    [phase |-> "driver", class |-> class, model |-> model, name |-> name,
     calibration |-> calibration, is_initialized |-> FALSE,
     is_connected |-> FALSE, device |-> FALSE, entities |-> <<>>,
     last_read |-> None, waits |-> <<>>,
     out |-> "-", readings |-> <<>>, raw |-> EmptyMap]

BoolStr(v) == IF v THEN "True" ELSE "False"

\* initialize(): a real driver fails without its library, pin or bus and
\* then leaves its flag as it was; BMP280Driver may fail after it has
\* created its I2C bus (bus)
DriverInitialize(ok, bus) ==
    /\ res.phase = "driver"
    /\ ok \/ res.class \notin DummySensorClasses
    /\ (ok \/ res.class # "BMP280Driver") => bus
    /\ res' = IF ok
              THEN [res EXCEPT !.is_initialized = TRUE,
                               !.device = res.class \notin DummySensorClasses,
                               !.entities = Entities(res.class, res.model, res.name),
                               !.out = "True", !.readings = <<>>,
                               !.raw = EmptyMap]
              ELSE [res EXCEPT !.device =
                                   IF res.class = "BMP280Driver"
                                   THEN res.device \/ bus
                                   ELSE res.device,
                               !.out = "False", !.readings = <<>>,
                               !.raw = EmptyMap]
    /\ UNCHANGED <<mgrVars, hubVars>>

\* connect(): False, and nothing changed, on a sensor not initialized
DriverConnect ==
    /\ res.phase = "driver"
    /\ res' = [res EXCEPT !.is_connected =
                              IF SensorConnect(res.is_initialized)
                              THEN TRUE
                              ELSE res.is_connected,
                          !.out = BoolStr(SensorConnect(res.is_initialized)),
                          !.readings = <<>>, !.raw = EmptyMap]
    /\ UNCHANGED <<mgrVars, hubVars>>

\* disconnect(): a real driver releases its device first
\* (_dht_device.exit(), _i2c_bus.deinit()); when that raises it answers
\* False and stays connected. A dummy driver has nothing to release
DriverDisconnect(ok) ==
    /\ res.phase = "driver"
    /\ ok \/ (res.class \notin DummySensorClasses /\ res.device)
    /\ res' = [res EXCEPT !.is_connected = IF ok THEN FALSE ELSE res.is_connected,
                          !.out = BoolStr(ok), !.readings = <<>>,
                          !.raw = EmptyMap]
    /\ UNCHANGED <<mgrVars, hubVars>>

\* calibrate(calibration_data): replaces config.calibration; a
\* BMP280Driver then hands the sea level pressure to its device, which
\* raises, answered with False, as long as initialize() has not created it
DriverCalibrate(calibration) ==
    /\ res.phase = "driver"
    /\ res' = [res EXCEPT !.calibration = calibration,
                          !.out = BoolStr(~( /\ res.class = "BMP280Driver"
                                            /\ SeaLevelPressure \in DOMAIN calibration
                                            /\ ~res.is_initialized )),
                          !.readings = <<>>, !.raw = EmptyMap]
    /\ UNCHANGED <<mgrVars, hubVars>>

\* get_entities()
get_entities == res.entities

\* DHT22Driver.read, `if current_time - self._last_read_time <
\* self._min_read_interval`: a connected DHT22Driver read less than the
\* interval ago suspends its next read() in asyncio.sleep
DriverReadWaits(d) ==
    /\ d.is_connected
    /\ d.class = "DHT22Driver"
    /\ d.last_read # None
    /\ now - d.last_read < MinReadInterval

\* the sensor after the access to its device: DHT22Driver.read sets
\* _last_read_time once the device has answered, before it looks at the
\* values
DriverAfterAccess(d, dev, r, raw) ==
    [d EXCEPT !.last_read = IF d.class = "DHT22Driver" /\ dev \in {"ok", "None"}
                            THEN now
                            ELSE d.last_read,
              !.out = r.out, !.readings = r.readings, !.raw = raw]

\* read(), as far as it runs at once: it raises on a sensor not
\* connected, suspends on a DHT22Driver read too recently, whatever reads
\* are suspended already, and otherwise accesses the device. The outcome
\* of the device matters to a real driver, the random quality to a dummy
\* driver. self_test() of a connected sensor is this read()
DriverRead(dev) ==
    /\ res.phase = "driver"
    /\ res.class \in DummySensorClasses => dev = "ok"
    /\ IF DriverReadWaits(res)
       THEN /\ dev = "ok"
            /\ Len(res.waits) < MaxReads
            /\ res' = [res EXCEPT !.waits = Append(@, res.last_read + MinReadInterval),
                                  !.out = "-", !.readings = <<>>,
                                  !.raw = EmptyMap]
       ELSE \E raw \in ReadValues(res.class, res.entities) :
            \E quality \in ReadQualities(res.class, Len(res.entities)) :
               LET r == SensorRead(res, dev, raw, quality)
               IN  res' = IF r.out = "raised" /\ ~res.is_connected
                          THEN [res EXCEPT !.out = r.out, !.readings = r.readings,
                                           !.raw = raw]
                          ELSE DriverAfterAccess(res, dev, r, raw)
    /\ UNCHANGED <<mgrVars, hubVars>>

\* the asyncio.sleep of one of the suspended read() calls is over: the
\* read accesses the device without a second look at _is_connected or at
\* _last_read_time
DriverReadResume(dev) ==
    /\ res.phase = "driver"
    /\ \E i \in 1..Len(res.waits) :
          /\ now >= res.waits[i]
          /\ \E raw \in ReadValues(res.class, res.entities) :
             \E quality \in ReadQualities(res.class, Len(res.entities)) :
                res' = [DriverAfterAccess(res, dev,
                                          DeviceRead(res, dev, raw, quality), raw)
                           EXCEPT !.waits = SubSeq(res.waits, 1, i - 1)
                                            \o SubSeq(res.waits, i + 1,
                                                      Len(res.waits))]
    /\ UNCHANGED <<mgrVars, hubVars>>

\* time passes for the one driver that looks at the clock
DriverClock ==
    /\ res.phase = "driver"
    /\ res.class = "DHT22Driver"
    /\ Tick

----------------------------------------------------------------------------
(* The sensor endpoints of the transport layer (api/sensors.py) *)

\* sensors.registry.DRIVER_REGISTRY: the driver names the endpoints accept
DRIVER_REGISTRY == {"PhotoCell", "BME280", "SCD41", "DS18B20", "FlexSensor", "eTape"}

\* driver names a request to the add-sensor endpoint may carry
ApiDriverNames == {"BME280", "SCD41", "DHT22Driver"}

\* the module-level _sensor_instances, empty, and no response sent yet
NoInstances == [phase |-> "api", sensor_instances |-> EmptyMap, status |-> 0]

\* POST /sensors/: 409 for a known name, 400 for an unknown driver
\* (KeyError of create_sensor_instance), else the instance is stored in
\* _sensor_instances and the response is 201
ApiAddSensor(name, driver) ==
    /\ res.phase = "api"
    /\ res' = IF name \in DOMAIN res.sensor_instances
              THEN [res EXCEPT !.status = 409]
              ELSE IF driver \notin DRIVER_REGISTRY
              THEN [res EXCEPT !.status = 400]
              ELSE [res EXCEPT !.sensor_instances = (name :> driver) @@ @,
                               !.status = 201]
    /\ UNCHANGED <<mgrVars, hubVars>>

\* DELETE /sensors/{sensor_id}
ApiRemoveSensor(name) ==
    /\ res.phase = "api"
    /\ res' = IF name \notin DOMAIN res.sensor_instances
              THEN [res EXCEPT !.status = 404]
              ELSE [res EXCEPT !.sensor_instances =
                                  [n \in DOMAIN @ \ {name} |-> @[n]],
                               !.status = 200]
    /\ UNCHANGED <<mgrVars, hubVars>>

\* SensorManager.list_sensors: the ids of the manager's registry
list_sensors == DOMAIN sensors

----------------------------------------------------------------------------
(* Specifications *)

\* the session task runs on
TaskStep(sid) ==
    \/ TaskStart(sid)
    \/ ReadStep(sid)
    \/ ReadResume(sid)
    \/ Wake(sid)
    \/ CancelStep(sid)

\* a request coroutine runs on from the point where it was suspended
CallStep(c) ==
    \/ Run(c)
    \/ AddSensorConnect(c)
    \/ StopMeasurementResume(c)
    \/ ReadSensorResume(c)

\* the manager under concurrent requests, read_sensor calls of the clients
\* included, with no websocket client
Next ==
    \/ \E c \in Callers, cl \in Requests : InvokeFree(c, cl)
    \/ \E c \in Callers, cl \in Requests : InvokeWait(c, cl)
    \/ \E c \in Callers : Run(c)
    \/ \E c \in Callers : AddSensorConnect(c)
    \/ \E c \in Callers : StopMeasurementResume(c)
    \/ \E c \in Callers, name \in SensorNames : read_sensor(c, name)
    \/ \E c \in Callers : ReadSensorResume(c)
    \/ \E sid \in SessionIds : TaskStart(sid)
    \/ \E sid \in SessionIds : ReadStep(sid)
    \/ \E sid \in SessionIds : ReadResume(sid)
    \/ \E sid \in SessionIds : Wake(sid)
    \/ \E sid \in SessionIds : CancelStep(sid)
    \/ Tick
    \/ \E name \in Flaky, v \in HwStates : HwChange(name, v)

Spec == Init /\ [][Next]_vars

\* the event loop runs every coroutine that is ready, and time passes
FairSpec ==
    /\ Spec
    /\ \A c \in Callers : WF_vars(CallStep(c))
    /\ \A sid \in SessionIds : WF_vars(TaskStep(sid))
    /\ WF_vars(Tick)

\* the requests of one client at a time, with websocket clients that
\* subscribe to session ids and leave
StreamCallers == {"c1"}

StreamNext ==
    \/ \E c \in StreamCallers, cl \in Requests : InvokeFree(c, cl)
    \/ \E c \in StreamCallers : Run(c)
    \/ \E c \in StreamCallers : AddSensorConnect(c)
    \/ \E c \in StreamCallers : StopMeasurementResume(c)
    \/ \E sid \in SessionIds : TaskStart(sid)
    \/ \E sid \in SessionIds : ReadStep(sid)
    \/ \E sid \in SessionIds : ReadResume(sid)
    \/ \E sid \in SessionIds : Wake(sid)
    \/ \E sid \in SessionIds : CancelStep(sid)
    \/ Tick
    \/ \E w \in Sockets, sid \in SessionIds : HubOpen(w, sid)
    \/ \E w \in Sockets, sid \in SessionIds : HubConnect(w, sid)
    \/ \E w \in Sockets, sid \in SessionIds : HubWelcome(w, sid)
    \/ \E w \in Sockets, sid \in SessionIds : HubDisconnect(w, sid)

SpecStream == Init /\ [][StreamNext]_vars

\* the hub on its own: websocket clients come, fail and leave while
\* producers broadcast to the sessions
HubNext ==
    \/ \E w \in Sockets, sid \in SessionIds : HubOpen(w, sid)
    \/ \E w \in Sockets, sid \in SessionIds : HubConnect(w, sid)
    \/ \E w \in Sockets, sid \in SessionIds : HubWelcome(w, sid)
    \/ \E w \in Sockets, sid \in SessionIds : HubDisconnect(w, sid)
    \/ \E w \in Sockets, v \in {"hung", "dead"} : WsChange(w, v)
    \/ \E sid \in SessionIds : broadcast_readings(sid)
    \/ \E sid \in SessionIds : broadcast_status(sid)
    \/ \E sid \in SessionIds : broadcast_error(sid)
    \/ \E p \in PassIds, w \in Sockets : SendBegin(p, w)
    \/ \E p \in PassIds : SendEnd(p)
    \/ \E p \in PassIds : BroadcastEnd(p)

SpecHub == Init /\ [][HubNext]_vars

\* a broadcast runs on
PassStep(p) ==
    \/ \E w \in Sockets : SendBegin(p, w)
    \/ SendEnd(p)
    \/ BroadcastEnd(p)

\* the event loop runs every broadcast on whenever it can go on
FairHub == SpecHub /\ \A p \in PassIds : WF_vars(PassStep(p))

\* the factory on its own, called in every environment
InitResolver ==
    /\ InitBase
    /\ \E env \in Environments, pin \in ConfigPins : res = FactoryInput(env, pin)

ResolverNext ==
    \/ \E driver \in DriverNames : CreateSensor(driver)
    \/ \E board_type \in FactoryBoardTypes : CreateBoard(board_type)
    \/ InstanceInit
    \/ InstanceConnect
    \/ InstanceRead

SpecResolver == InitResolver /\ [][ResolverNext]_vars

\* a manager that was initialized on a GPIO board and holds the registry
InitManaged(registry) ==
    /\ is_initialized = TRUE
    /\ board = [board_type |-> "GPIO", is_initialized |-> TRUE]
    /\ sensors = registry
    /\ sessions = EmptyMap
    /\ tasks = EmptyMap
    /\ lock_owner = NoOwner
    /\ lock_waiters = <<>>
    /\ call = [c \in Callers |-> IdleCall]
    /\ ncalls = 0
    /\ hw = [n \in SensorNames |-> "ok"]
    /\ now = 0
    /\ connections = EmptyMap
    /\ delivered = [w \in Sockets |-> NoMessages]
    /\ nhub = 0
    /\ nhw = 0
    /\ endpoints = EmptyMap
    /\ wsstate = [w \in Sockets |-> "ok"]
    /\ pass = NoPasses
    /\ npass = 0
    /\ res = NoCall

\* ... that had a DHT22 ("a") and a BMP280 ("b") added
InitTimed ==
    InitManaged([n \in SensorNames |->
                    NewSensor(IF n = "a" THEN "DHT22Driver" ELSE "BMP280Driver", 0)])

\* the requests that start a session of a limited duration
TimedRequests ==
    { [IdleCall EXCEPT !.op = "start_measurement", !.target = r[1], !.ids = r[2],
                       !.interval = r[3], !.duration = r[4]] :
         r \in StartIds \X TimedLists \X Intervals \X TimedDurations }

\* sessions of a limited duration that nobody stops, with devices that fail
\* and recover, under any scheduling delay
TimedNext ==
    \/ \E c \in StreamCallers, cl \in TimedRequests : InvokeFree(c, cl)
    \/ \E c \in StreamCallers : Run(c)
    \/ \E sid \in SessionIds : TaskStart(sid)
    \/ \E sid \in SessionIds : ReadStep(sid)
    \/ \E sid \in SessionIds : ReadResume(sid)
    \/ \E sid \in SessionIds : Wake(sid)
    \/ ClockTick
    \/ \E name \in SensorNames, v \in DeviceStates : HwChange(name, v)

SpecTimed == InitTimed /\ [][TimedNext]_vars

\* the same sessions on an event loop that is never late
OnTimeNext ==
    \/ \E c \in StreamCallers, cl \in TimedRequests : InvokeFree(c, cl)
    \/ \E c \in StreamCallers : Run(c)
    \/ \E sid \in SessionIds : TaskStart(sid)
    \/ \E sid \in SessionIds : ReadStep(sid)
    \/ \E sid \in SessionIds : ReadResume(sid)
    \/ \E sid \in SessionIds : Wake(sid)
    \/ IdleTick
    \/ \E name \in SensorNames, v \in DeviceStates : HwChange(name, v)

SpecOnTime == InitTimed /\ [][OnTimeNext]_vars

\* the durations a start request may carry besides None: the field is an
\* Optional[float] without a lower bound
GivenDurations == {0, 1, 2}

GivenRequests ==
    { [IdleCall EXCEPT !.op = "start_measurement", !.target = r[1], !.ids = r[2],
                       !.interval = r[3], !.duration = r[4]] :
         r \in StartIds \X TimedLists \X Intervals \X GivenDurations }

\* sessions started with a duration that nobody stops, with devices that
\* fail and recover
GivenNext ==
    \/ \E c \in StreamCallers, cl \in GivenRequests : InvokeFree(c, cl)
    \/ \E c \in StreamCallers : Run(c)
    \/ \E sid \in SessionIds : TaskStart(sid)
    \/ \E sid \in SessionIds : ReadStep(sid)
    \/ \E sid \in SessionIds : ReadResume(sid)
    \/ \E sid \in SessionIds : Wake(sid)
    \/ ClockTick
    \/ \E name \in SensorNames, v \in DeviceStates : HwChange(name, v)

SpecGiven == InitTimed /\ [][GivenNext]_vars

\* the life cycle of the manager: initialize with any board type of a
\* configuration, and shutdown, in any order
LifecycleRequests ==
    { [IdleCall EXCEPT !.op = "initialize", !.target = bt] : bt \in FactoryBoardTypes }
    \cup { [IdleCall EXCEPT !.op = "shutdown"] }

LifecycleNext ==
    \/ \E c \in Callers, cl \in LifecycleRequests : InvokeFree(c, cl)
    \/ \E c \in Callers, cl \in LifecycleRequests : InvokeWait(c, cl)
    \/ \E c \in Callers : Run(c)

SpecLifecycle == Init /\ [][LifecycleNext]_vars

\* an initialized manager with an empty registry, and two clients that add
\* a sensor under the same id
InitRace == InitManaged(EmptyMap)

RaceId == "a"

RaceRequests ==
    { [IdleCall EXCEPT !.op = "add_sensor", !.target = cfg.name,
                       !.driver = cfg.driver] :
         cfg \in { x \in Configs : x.name = RaceId } }

RaceNext ==
    \/ \E c \in Callers, cl \in RaceRequests : InvokeFree(c, cl)
    \/ \E c \in Callers, cl \in RaceRequests : InvokeWait(c, cl)
    \/ \E c \in Callers : Run(c)
    \/ \E c \in Callers : AddSensorConnect(c)
    \/ \E name \in Flaky, v \in HwStates : HwChange(name, v)

SpecRace == InitRace /\ [][RaceNext]_vars

\* the four operations on sensors and sessions, on one sensor name and one
\* session id, issued by two clients at any time
MixOps == {"add_sensor", "remove_sensor", "start_measurement", "stop_measurement"}

MixRequests ==
    { cl \in Requests :
         /\ cl.op \in MixOps
         /\ cl.op \in {"add_sensor", "remove_sensor"} => cl.target = RaceId
         /\ cl.op = "start_measurement" => cl.ids \in {<<>>, <<RaceId>>}
         /\ cl.op = "stop_measurement" => cl.target \in StartIds }

MixNext ==
    \/ \E c \in Callers, cl \in MixRequests : InvokeFree(c, cl)
    \/ \E c \in Callers, cl \in MixRequests : InvokeWait(c, cl)
    \/ \E c \in Callers : Run(c)
    \/ \E c \in Callers : AddSensorConnect(c)
    \/ \E c \in Callers : StopMeasurementResume(c)
    \/ \E sid \in SessionIds : TaskStart(sid)
    \/ \E sid \in SessionIds : ReadStep(sid)
    \/ \E sid \in SessionIds : ReadResume(sid)
    \/ \E sid \in SessionIds : Wake(sid)
    \/ \E sid \in SessionIds : CancelStep(sid)
    \/ Tick

SpecMix == InitRace /\ [][MixNext]_vars

\* the operations on one sensor and on the sessions that read it, issued
\* by two clients at any time to a manager that holds both sensors, with a
\* device that fails and recovers
DegradedRequests ==
    { cl \in Requests :
         /\ cl.op \in MixOps
         /\ cl.op \in {"add_sensor", "remove_sensor"} => cl.target = RaceId
         /\ cl.op = "start_measurement" => cl.ids \in TimedLists
         /\ cl.op = "stop_measurement" => cl.target \in StartIds }

DegradedNext ==
    \/ \E c \in Callers, cl \in DegradedRequests : InvokeFree(c, cl)
    \/ \E c \in Callers, cl \in DegradedRequests : InvokeWait(c, cl)
    \/ \E c \in Callers : Run(c)
    \/ \E c \in Callers : AddSensorConnect(c)
    \/ \E c \in Callers : StopMeasurementResume(c)
    \/ \E sid \in SessionIds : TaskStart(sid)
    \/ \E sid \in SessionIds : ReadStep(sid)
    \/ \E sid \in SessionIds : ReadResume(sid)
    \/ \E sid \in SessionIds : Wake(sid)
    \/ \E sid \in SessionIds : CancelStep(sid)
    \/ Tick
    \/ \E name \in Flaky, v \in HwStates : HwChange(name, v)

SpecDegraded == InitTimed /\ [][DegradedNext]_vars

\* the event loop runs every coroutine that is ready, and time passes
FairMix ==
    /\ SpecMix
    /\ \A c \in Callers : WF_vars(CallStep(c))
    /\ \A sid \in SessionIds : WF_vars(TaskStep(sid))
    /\ WF_vars(Tick)

\* the application: the lifespan initializes the manager, the measurement
\* endpoints call the manager, the sensor endpoints keep _sensor_instances.
\* No endpoint calls the manager's add_sensor, so its sessions have no
\* sensor to read.
InitApi == InitBase /\ res = NoInstances

ApiRequests ==
    { cl \in Requests : cl.op \in {"initialize", "start_measurement", "stop_measurement"} }

ApiNext ==
    \/ \E c \in StreamCallers, cl \in ApiRequests : InvokeFree(c, cl)
    \/ \E c \in StreamCallers : Run(c)
    \/ \E c \in StreamCallers : StopMeasurementResume(c)
    \/ \E sid \in SessionIds : TaskStart(sid)
    \/ \E sid \in SessionIds : Wake(sid)
    \/ \E sid \in SessionIds : CancelStep(sid)
    \/ Tick
    \/ \E name \in SensorNames, driver \in ApiDriverNames : ApiAddSensor(name, driver)
    \/ \E name \in SensorNames : ApiRemoveSensor(name)

SpecApi == InitApi /\ [][ApiNext]_vars

\* one sensor instance of any variant and calibration, driven through its
\* life cycle
InitDriver ==
    /\ InitBase
    /\ \E class \in SensorClasses, model \in SensorModels, name \in SensorNames :
          \E calibration \in Calibrations(name) :
             /\ class # "DummySensorDriver" => model = "DHT22"
             /\ res = NewDriver(class, model, name, calibration)

DriverNext ==
    \/ \E ok \in BOOLEAN, bus \in BOOLEAN : DriverInitialize(ok, bus)
    \/ DriverConnect
    \/ \E ok \in BOOLEAN : DriverDisconnect(ok)
    \/ \E calibration \in Calibrations(res.name) : DriverCalibrate(calibration)
    \/ \E dev \in DeviceOutcomes : DriverRead(dev)
    \/ \E dev \in DeviceOutcomes : DriverReadResume(dev)
    \/ DriverClock

SpecDriver == InitDriver /\ [][DriverNext]_vars

----------------------------------------------------------------------------
(* Boards *)

BoardClasses == {"GPIOBoard", "CustomBoard", "DummyBoard"}

\* BoardConfig: the fields the boards read
BoardConfigs ==
    [board_type : FactoryBoardTypes, i2c_enabled : BOOLEAN, spi_enabled : BOOLEAN]

\* the pins, ADC channels and voltage channels of the model: pin 4 is the
\* test pin of DummyBoard.self_test, pin 5 switches 3.3V on channel 1 of
\* the CustomBoard; ADC channel 4 is beyond the four of the CustomBoard
BoardPins == {4, 5}
AnalogChannels == {0, 4}
VoltageChannels == {0, 1}
ChannelNone == -1
VoltageLevels == {"3.3V", "5V"}

\* CustomBoard.VOLTAGE_CONTROL_PINS, by level and number of the channel
VOLTAGE_CONTROL_PINS ==
    [l \in {"3.3V", "5V", "12V"} |->
        CASE l = "3.3V" -> <<5, 6, 13, 19>>
          [] l = "5V" -> <<12, 16, 20, 21>>
          [] OTHER -> <<7, 8, 25, 24>>]

\* CustomBoard.ADC_CHANNELS
ADC_CHANNELS == 4

\* voltages in tenths of a volt: the values random.uniform and the random
\* walk of DummyBoard.read_analog produce, the voltage of the real ADC
AnalogLevels == {5, 30}

\* PinConfig.mode, one mode no board sets up among them, and
\* PinConfig.initial_value
PinModes == {"input", "output", "pwm", "i2c"}
PinInitials == {"none", "low", "high"}

\* CustomBoard.write_digital calls suspended in asyncio.sleep at a time
MaxWrites == 1

\* what the hardware of a real board does during initialize().
\* gpio: "none" RPi.GPIO is missing or GPIO.setmode raises; "pins" the
\* set-up of the voltage pins raises once pin 5 is low; "switch" the switch
\* of channel 1 to 3.3V fails and is ignored; "leds" the set-up of the
\* status LEDs raises.  i2c: the I2C bus opens.  spi: "none" SpiDev()
\* raises, "unopened" its open() does.  adc: the ADC answers
BoardHardware ==
    [gpio : {"ok", "none", "pins", "switch", "leds"}, i2c : BOOLEAN,
     spi : {"ok", "none", "unopened"}, adc : BOOLEAN]

HardwareOk == [gpio |-> "ok", i2c |-> TRUE, spi |-> "ok", adc |-> TRUE]

\* BaseBoard.__init__ and the __init__ of the three boards. pin_states is
\* _pin_states of the DummyBoard and, of a real board, the level of the
\* pins the board drives; voltage_levels is _voltage_levels of the
\* DummyBoard and _channel_voltages of the CustomBoard; writing counts the
\* write_digital calls of a CustomBoard that are suspended, by pin and
\* value
NewBoard(class, config) ==
    [phase |-> "board", class |-> class, config |-> config,
     is_initialized |-> FALSE, capabilities |-> [x \in {} |-> FALSE],
     i2c_bus |-> FALSE, spi_bus |-> FALSE, adc |-> FALSE,
     pin_states |-> EmptyMap, analog_values |-> EmptyMap,
     voltage_levels |-> [x \in {} |-> "3.3V"],
     writing |-> [w \in BoardPins \X BOOLEAN |-> 0],
     op |-> "-", pin |-> 0, value |-> FALSE, out |-> "-", val |-> 0]

\* BaseBoard.has_capability
has_capability(b, capability_name) ==
    /\ capability_name \in DOMAIN b.capabilities
    /\ b.capabilities[capability_name]

\* the capabilities DummyBoard.initialize defines
DummyCapabilities(config) ==
    IF config.board_type = "GPIO"
    THEN [x \in {"gpio", "i2c", "pwm", "adc"} |->
            CASE x = "i2c" -> config.i2c_enabled
              [] x = "adc" -> FALSE
              [] OTHER -> TRUE]
    ELSE [x \in {"gpio", "i2c", "adc", "voltage_control"} |->
            IF x = "i2c" THEN config.i2c_enabled ELSE TRUE]

\* the capabilities GPIOBoard.initialize and CustomBoard.initialize define
RealCapabilities(class, i2c_bus, spi_bus, adc) ==
    IF class = "GPIOBoard"
    THEN [x \in {"digital_io", "pwm", "i2c", "spi", "analog_input",
                 "voltage_control"} |->
            CASE x = "i2c" -> i2c_bus
              [] x = "spi" -> spi_bus
              [] x \in {"analog_input", "voltage_control"} -> FALSE
              [] OTHER -> TRUE]
    ELSE [x \in {"digital_io", "pwm", "i2c", "spi", "analog_input",
                 "voltage_control", "overcurrent_protection"} |->
            CASE x = "i2c" -> i2c_bus
              [] x = "spi" -> spi_bus
              [] x = "analog_input" -> adc
              [] OTHER -> TRUE]

\* the level of a pin as far as the board determines it
PinLevel(pins, pin) == IF pin \in DOMAIN pins THEN BoolStr(pins[pin]) ELSE "-"

\* the board with its pins at the levels pins
Drive(b, pins) == [b EXCEPT !.pin_states = pins]

\* the sum of the values of a function with natural values
RECURSIVE Total(_)
Total(f) ==
    IF DOMAIN f = {}
    THEN 0
    ELSE LET x == CHOOSE x \in DOMAIN f : TRUE
         IN  f[x] + Total([y \in DOMAIN f \ {x} |-> f[y]])

\* the board that has answered the operation op
Answer(b, op, pin, value, out, val) ==
    [b EXCEPT !.op = op, !.pin = pin, !.value = value, !.out = out,
              !.val = val]

\* the pins without those of the set gone: GPIO.cleanup and GPIO.setup as
\* an input leave the level of a pin to what is wired to it
Released(pins, gone) == [p \in DOMAIN pins \ gone |-> pins[p]]

\* the channels CustomBoard.set_voltage_level switches:
\* `[channel] if channel else range(1, 5)`
SwitchedChannels(channel) ==
    IF channel = ChannelNone \/ channel = 0 THEN 1..4 ELSE {channel} \cap (1..4)

\* CustomBoard._set_all_voltages_off for the channels: their voltage pins low
VoltagesOff(pins, channels) ==
    [p \in { VOLTAGE_CONTROL_PINS[l][ch] :
                l \in DOMAIN VOLTAGE_CONTROL_PINS, ch \in channels } \cap BoardPins
        |-> FALSE] @@ pins

\* ... and then the pin of the level high
VoltagesOn(pins, level, channels) ==
    [p \in { VOLTAGE_CONTROL_PINS[level][ch] : ch \in channels } \cap BoardPins
        |-> TRUE] @@ VoltagesOff(pins, channels)

\* _channel_voltages after the switch
ChannelVoltages(voltages, level, channels) ==
    [c \in channels \cap VoltageChannels |-> level] @@ voltages

\* DummyBoard.initialize: pins 1..28 low at 3.3V, ADC channels 0..7 at a
\* random voltage, written into the dictionaries the board has
DummyBoardInitialize(b, analog) ==
    Answer([b EXCEPT !.capabilities = DummyCapabilities(b.config),
                     !.pin_states =
                         [p \in {p \in BoardPins : p >= 1 /\ p <= 28} |-> FALSE]
                            @@ b.pin_states,
                     !.voltage_levels =
                         [c \in {c \in VoltageChannels : c >= 1 /\ c <= 28} |-> "3.3V"]
                            @@ b.voltage_levels,
                     !.analog_values =
                         [c \in {c \in AnalogChannels : c >= 0 /\ c <= 7} |-> analog[c]]
                            @@ b.analog_values,
                     !.is_initialized = TRUE],
           "initialize", 0, FALSE, "True", 0)

\* GPIOBoard.initialize: a bus that does not open is logged and left as it
\* was; the SpiDev object is assigned before it is opened
GPIOBoardInitialize(b, hardware) ==
    IF hardware.gpio # "ok"
    THEN Answer(b, "initialize", 0, FALSE, "False", 0)
    ELSE LET i2c == b.i2c_bus \/ (b.config.i2c_enabled /\ hardware.i2c)
             spi == b.spi_bus \/ (b.config.spi_enabled /\ hardware.spi # "none")
         IN  Answer([b EXCEPT !.i2c_bus = i2c, !.spi_bus = spi,
                              !.capabilities = RealCapabilities(b.class, i2c, spi, FALSE),
                              !.is_initialized = TRUE],
                    "initialize", 0, FALSE, "True", 0)

\* CustomBoard.initialize: the voltage pins are set up low and the four
\* channels switched to 3.3V before the buses are opened; a bus that does
\* not open ends the call with False, after the pins driven and the fields
\* assigned so far
CustomBoardInitialize(b, hardware) ==
    IF hardware.gpio = "none"
    THEN Answer(b, "initialize", 0, FALSE, "False", 0)
    ELSE IF hardware.gpio = "pins"
    THEN Answer(Drive(b, VoltagesOff(b.pin_states, 1..4)),
                "initialize", 0, FALSE, "False", 0)
    ELSE
      LET switched ==
             IF hardware.gpio = "switch"
             THEN [Drive(b, VoltagesOn(VoltagesOff(b.pin_states, 1..4), "3.3V", 2..4))
                     EXCEPT !.voltage_levels = ChannelVoltages(@, "3.3V", 2..4)]
             ELSE [Drive(b, VoltagesOn(b.pin_states, "3.3V", 1..4))
                     EXCEPT !.voltage_levels = ChannelVoltages(@, "3.3V", 1..4)]
          i2c == b.i2c_bus \/ b.config.i2c_enabled
          adc == IF b.config.i2c_enabled THEN hardware.adc ELSE b.adc
          spi == b.spi_bus \/ (b.config.spi_enabled /\ hardware.spi # "none")
      IN  IF hardware.gpio = "leds" \/ (b.config.i2c_enabled /\ ~hardware.i2c)
          THEN Answer(switched, "initialize", 0, FALSE, "False", 0)
          ELSE IF b.config.spi_enabled /\ hardware.spi # "ok"
          THEN Answer([switched EXCEPT !.i2c_bus = i2c, !.adc = adc,
                                       !.spi_bus = spi],
                      "initialize", 0, FALSE, "False", 0)
          ELSE Answer([switched EXCEPT !.i2c_bus = i2c, !.adc = adc,
                                       !.spi_bus = spi,
                                       !.capabilities =
                                           RealCapabilities(b.class, i2c, spi, adc),
                                       !.is_initialized = TRUE],
                      "initialize", 0, FALSE, "True", 0)

\* the hardware has an outcome for the steps initialize() comes to only:
\* the GPIOBoard sets no pin up and has no ADC, a bus that is not enabled
\* is not opened, and the CustomBoard stops at the first step that raises
HardwareReached(b, hardware) ==
    /\ b.class = "GPIOBoard" => hardware.gpio \in {"ok", "none"} /\ hardware.adc
    /\ hardware.gpio \in {"none", "pins", "leds"}
          => hardware.i2c /\ hardware.adc /\ hardware.spi = "ok"
    /\ ~b.config.i2c_enabled => hardware.i2c /\ hardware.adc
    /\ ~b.config.spi_enabled => hardware.spi = "ok"
    /\ (b.class = "CustomBoard" /\ ~hardware.i2c)
          => hardware.adc /\ hardware.spi = "ok"

\* initialize(), on a board in any state
BoardInitialize(hardware, analog) ==
    /\ res.phase = "board"
    /\ IF res.class = "DummyBoard"
       THEN hardware = HardwareOk /\ analog # EmptyMap
       ELSE analog = EmptyMap /\ HardwareReached(res, hardware)
    /\ res' = CASE res.class = "DummyBoard" -> DummyBoardInitialize(res, analog)
                [] res.class = "GPIOBoard" -> GPIOBoardInitialize(res, hardware)
                [] OTHER -> CustomBoardInitialize(res, hardware)
    /\ UNCHANGED <<mgrVars, hubVars>>

\* cleanup(): DummyBoard clears its pin dictionaries; a real board closes
\* its buses, which stay assigned, and GPIO.cleanup() releases the pins;
\* the CustomBoard first switches its voltage pins off (off: that much was
\* done when a later step raised). An exception is answered with False
CleanupBoard(ok, off) ==
    /\ res.phase = "board"
    /\ res.class = "DummyBoard" => ok
    /\ (ok \/ res.class # "CustomBoard") => off
    /\ res' =
         IF ok
         THEN Answer([Drive(res, Released(res.pin_states, BoardPins))
                        EXCEPT !.is_initialized = FALSE],
                     "cleanup", 0, FALSE, "True", 0)
         ELSE IF res.class = "CustomBoard" /\ off
         THEN Answer(Drive(res, VoltagesOff(res.pin_states, 1..4)),
                     "cleanup", 0, FALSE, "False", 0)
         ELSE Answer(res, "cleanup", 0, FALSE, "False", 0)
    /\ UNCHANGED <<mgrVars, hubVars>>

\* setup_pin(config): DummyBoard stores the initial value of an output; a
\* real board sets the pin up, as an output with its initial value, or as
\* an input or a PWM output whose level the board does not determine.
\* GPIOBoard answers False to another mode, CustomBoard True; an exception
\* of GPIO.setup is answered with False
BoardSetupPin(pin, mode, initial, ok) ==
    /\ res.phase = "board"
    /\ res.class = "DummyBoard" => ok
    /\ res' =
         CASE res.class = "DummyBoard" ->
                Answer([res EXCEPT !.pin_states =
                                       IF mode = "output" /\ initial # "none"
                                       THEN (pin :> (initial = "high")) @@ res.pin_states
                                       ELSE res.pin_states],
                       "setup_pin", pin, FALSE, "True", 0)
           [] ~ok ->
                Answer(res, "setup_pin", pin, FALSE, "False", 0)
           [] mode \in {"input", "pwm"} ->
                Answer(Drive(res, Released(res.pin_states, {pin})),
                       "setup_pin", pin, FALSE, "True", 0)
           [] mode = "output" ->
                Answer(Drive(res, IF initial # "none"
                                  THEN (pin :> (initial = "high")) @@ res.pin_states
                                  ELSE res.pin_states),
                       "setup_pin", pin, FALSE, "True", 0)
           [] OTHER ->
                Answer(res, "setup_pin", pin, FALSE,
                       BoolStr(res.class = "CustomBoard"), 0)
    /\ UNCHANGED <<mgrVars, hubVars>>

\* write_digital(pin, value): the dummy board stores the value; a real
\* board drives the pin unless GPIO.output raises (outcome "pin"), which is
\* answered with False. The CustomBoard then switches its activity LED on
\* (outcome "led": that raises, False with the pin driven) and suspends in
\* asyncio.sleep(0.01)
BoardWriteDigital(pin, value, outcome) ==
    /\ res.phase = "board"
    /\ res.class = "DummyBoard" => outcome = "ok"
    /\ res.class = "GPIOBoard" => outcome \in {"ok", "pin"}
    /\ res.class = "CustomBoard" /\ outcome = "ok" => Total(res.writing) < MaxWrites
    /\ res' =
         CASE outcome = "pin" ->
                Answer(res, "write_digital", pin, value, "False", 0)
           [] res.class = "DummyBoard" ->
                Answer([res EXCEPT !.pin_states = (pin :> value) @@ res.pin_states],
                       "write_digital", pin, value, "True", 0)
           [] res.class = "GPIOBoard" ->
                Answer(Drive(res, (pin :> value) @@ res.pin_states),
                       "write_digital", pin, value, "True", 0)
           [] outcome = "led" ->
                Answer(Drive(res, (pin :> value) @@ res.pin_states),
                       "write_digital", pin, value, "False", 0)
           [] OTHER ->
                Answer([res EXCEPT !.pin_states = (pin :> value) @@ res.pin_states,
                                   !.writing[<<pin, value>>] = @ + 1],
                       "write_digital", pin, value, "suspended", 0)
    /\ UNCHANGED <<mgrVars, hubVars>>

\* the asyncio.sleep of a suspended write_digital(pin, value) is over: the
\* activity LED is switched off and the call answers True, or False when
\* that raises
BoardWriteResume(pin, value, ok) ==
    /\ res.phase = "board"
    /\ res.writing[<<pin, value>>] > 0
    /\ res' = Answer([res EXCEPT !.writing[<<pin, value>>] = @ - 1],
                     "write_digital", pin, value, BoolStr(ok), 0)
    /\ UNCHANGED <<mgrVars, hubVars>>

\* read_digital(pin): the dummy board toggles the stored state of the pin
\* with probability 0.1 before it returns it; a real board returns the
\* level of the pin, that the board drives or else the level wired to it,
\* and lets through what GPIO.input raises
BoardReadDigital(pin, toggle, ok, level) ==
    /\ res.phase = "board"
    /\ res.class = "DummyBoard" => ok /\ ~level
    /\ res.class # "DummyBoard" => ~toggle
    /\ (~ok \/ pin \in DOMAIN res.pin_states) => ~level
    /\ res' =
         CASE ~ok ->
                Answer(res, "read_digital", pin, FALSE, "RuntimeError", 0)
           [] res.class = "DummyBoard" ->
                LET state == DictGet(res.pin_states, pin, FALSE)
                    read == IF toggle THEN ~state ELSE state
                IN  Answer([res EXCEPT !.pin_states =
                                           IF toggle
                                           THEN (pin :> read) @@ res.pin_states
                                           ELSE res.pin_states],
                           "read_digital", pin, FALSE, BoolStr(read), 0)
           [] OTHER ->
                Answer(res, "read_digital", pin, FALSE,
                       BoolStr(DictGet(res.pin_states, pin, level)), 0)
    /\ UNCHANGED <<mgrVars, hubVars>>

\* read_analog(channel): GPIOBoard raises NotImplementedError; CustomBoard
\* needs its ADC and one of its channels, and lets through what the ADC
\* raises; DummyBoard needs the "adc" capability and stores the next value
\* of its random walk
BoardReadAnalog(channel, level, ok) ==
    /\ res.phase = "board"
    /\ ok \/ ( /\ res.class = "CustomBoard"
               /\ res.adc
               /\ channel >= 0 /\ channel < ADC_CHANNELS )
    /\ res' =
         CASE res.class = "GPIOBoard" ->
                Answer(res, "read_analog", channel, FALSE, "NotImplementedError", 0)
           [] res.class = "CustomBoard" ->
                IF ~res.adc
                THEN Answer(res, "read_analog", channel, FALSE, "RuntimeError", 0)
                ELSE IF channel < 0 \/ channel >= ADC_CHANNELS
                THEN Answer(res, "read_analog", channel, FALSE, "ValueError", 0)
                ELSE IF ~ok
                THEN Answer(res, "read_analog", channel, FALSE, "Exception", 0)
                ELSE Answer(res, "read_analog", channel, FALSE, "returned", level)
           [] OTHER ->
                IF ~has_capability(res, "adc")
                THEN Answer(res, "read_analog", channel, FALSE, "RuntimeError", 0)
                ELSE Answer([res EXCEPT !.analog_values =
                                            (channel :> level) @@ res.analog_values],
                            "read_analog", channel, FALSE, "returned", level)
    /\ UNCHANGED <<mgrVars, hubVars>>

\* set_voltage_level(level, channel): GPIOBoard answers False; DummyBoard
\* needs the "voltage_control" capability and sets the channel, or channels
\* 0..7. CustomBoard switches the voltage pins of the channel, or of its
\* four channels, off and the pin of the level on. When GPIO.output raises
\* (outcome "before": at once, "off": with the pins off, "after": with
\* another channel switched already) it switches the error LED on and
\* answers False, unless that raises as well (~led)
BoardSetVoltageLevel(level, channel, outcome, led) ==
    /\ res.phase = "board"
    /\ res.class # "CustomBoard" => outcome = "ok"
    /\ outcome = "ok" => led
    /\ outcome = "after" => SwitchedChannels(channel) = 1..4
    /\ res' =
         CASE res.class = "GPIOBoard" ->
                Answer(res, "set_voltage_level", channel, FALSE, "False", 0)
           [] res.class = "CustomBoard" ->
                LET channels == SwitchedChannels(channel)
                    failed == IF led THEN "False" ELSE "RuntimeError"
                    switched ==
                        [Drive(res, VoltagesOn(res.pin_states, level, channels))
                           EXCEPT !.voltage_levels =
                                      ChannelVoltages(@, level, channels)]
                IN  CASE outcome = "ok" ->
                           Answer(switched, "set_voltage_level", channel, FALSE,
                                  "True", 0)
                      [] outcome = "before" ->
                           Answer(res, "set_voltage_level", channel, FALSE,
                                  failed, 0)
                      [] outcome = "off" ->
                           Answer(Drive(res, VoltagesOff(res.pin_states, channels)),
                                  "set_voltage_level", channel, FALSE, failed, 0)
                      [] OTHER ->
                           Answer(switched, "set_voltage_level", channel, FALSE,
                                  failed, 0)
           [] OTHER ->
                IF ~has_capability(res, "voltage_control")
                THEN Answer(res, "set_voltage_level", channel, FALSE, "False", 0)
                ELSE Answer([res EXCEPT !.voltage_levels =
                                IF channel = ChannelNone
                                THEN [c \in {c \in VoltageChannels :
                                                c >= 0 /\ c <= 7} |-> level]
                                        @@ res.voltage_levels
                                ELSE (channel :> level) @@ res.voltage_levels],
                            "set_voltage_level", channel, FALSE, "True", 0)
    /\ UNCHANGED <<mgrVars, hubVars>>

\* get_i2c_bus(): a real board needs its bus object, DummyBoard the "i2c"
\* capability
BoardGetI2cBus ==
    /\ res.phase = "board"
    /\ LET ok == IF res.class = "DummyBoard"
                 THEN has_capability(res, "i2c")
                 ELSE res.i2c_bus
       IN  res' = Answer(res, "get_i2c_bus", 0, FALSE,
                         IF ok THEN "bus" ELSE "RuntimeError", 0)
    /\ UNCHANGED <<mgrVars, hubVars>>

\* get_spi_bus(): a real board needs its bus object, DummyBoard the
\* spi_enabled flag of its configuration
BoardGetSpiBus ==
    /\ res.phase = "board"
    /\ LET ok == IF res.class = "DummyBoard"
                 THEN res.config.spi_enabled
                 ELSE res.spi_bus
       IN  res' = Answer(res, "get_spi_bus", 0, FALSE,
                         IF ok THEN "bus" ELSE "RuntimeError", 0)
    /\ UNCHANGED <<mgrVars, hubVars>>

\* DummyBoard.self_test(): write_digital(4, True), read_digital(4), then
\* read_analog(0) with the "adc" capability and set_voltage_level(5V, 0)
\* with "voltage_control"; the self_test of a real board reports its fields
BoardSelfTest(toggle, level) ==
    /\ res.phase = "board"
    /\ res.class # "DummyBoard" => ~toggle /\ level = 5
    /\ ~has_capability(res, "adc") => level = 5
    /\ res' =
         IF res.class # "DummyBoard"
         THEN Answer(res, "self_test", 0, FALSE, "returned", 0)
         ELSE Answer([res EXCEPT !.pin_states = (4 :> ~toggle) @@ res.pin_states,
                                 !.analog_values =
                                     IF has_capability(res, "adc")
                                     THEN (0 :> level) @@ res.analog_values
                                     ELSE res.analog_values,
                                 !.voltage_levels =
                                     IF has_capability(res, "voltage_control")
                                     THEN (0 :> "5V") @@ res.voltage_levels
                                     ELSE res.voltage_levels],
                     "self_test", 0, FALSE, "returned", 0)
    /\ UNCHANGED <<mgrVars, hubVars>>

\* one board of any variant and configuration, as DriverFactory.create_board
\* builds it: a real board for its own board type, the dummy board for any
InitBoard ==
    /\ InitBase
    /\ \E class \in BoardClasses, config \in BoardConfigs :
          /\ class # "DummyBoard"
                => /\ config.board_type \in DOMAIN BOARD_DRIVERS
                   /\ BOARD_DRIVERS[config.board_type] = class
          /\ res = NewBoard(class, config)

BoardNext ==
    \/ \E hardware \in BoardHardware :
          \E analog \in {EmptyMap} \cup [AnalogChannels -> AnalogLevels] :
             BoardInitialize(hardware, analog)
    \/ \E ok \in BOOLEAN, off \in BOOLEAN : CleanupBoard(ok, off)
    \/ \E pin \in BoardPins, mode \in PinModes, initial \in PinInitials,
          ok \in BOOLEAN :
          BoardSetupPin(pin, mode, initial, ok)
    \/ \E pin \in BoardPins, value \in BOOLEAN, outcome \in {"ok", "pin", "led"} :
          BoardWriteDigital(pin, value, outcome)
    \/ \E pin \in BoardPins, value \in BOOLEAN, ok \in BOOLEAN :
          BoardWriteResume(pin, value, ok)
    \/ \E pin \in BoardPins, toggle \in BOOLEAN, ok \in BOOLEAN, level \in BOOLEAN :
          BoardReadDigital(pin, toggle, ok, level)
    \/ \E channel \in AnalogChannels, level \in AnalogLevels, ok \in BOOLEAN :
          BoardReadAnalog(channel, level, ok)
    \/ \E level \in VoltageLevels, channel \in VoltageChannels \cup {ChannelNone},
          outcome \in {"ok", "before", "off", "after"}, led \in BOOLEAN :
          BoardSetVoltageLevel(level, channel, outcome, led)
    \/ BoardGetI2cBus
    \/ BoardGetSpiBus
    \/ \E toggle \in BOOLEAN, level \in AnalogLevels : BoardSelfTest(toggle, level)

SpecBoard == InitBoard /\ [][BoardNext]_vars

----------------------------------------------------------------------------
(* Properties *)

\* in this step the request of caller c returns
Returned(c) == call[c].pc # "done" /\ call'[c].pc = "done"

\* in this step the request of caller c, an op, runs its body
Ran(c, op) == call[c].op = op /\ call[c].pc = "body" /\ call'[c].pc # "body"

\* the sensor id whose read the task of session sid is at
ReadName(sid) == sessions[sid].sensor_ids[tasks[sid].idx]

\* in this step the task of session sid runs and the read it is at, or
\* suspended in, raises
ReadFailure(sid) ==
    /\ ~tasks[sid].must_cancel
    /\ \/ tasks[sid].pc = "read" /\ ReadRaises(ReadName(sid))
       \/ tasks[sid].pc = "read_wait" /\ DeviceRaises(ReadName(sid), "DHT22Driver")
    /\ tasks'[sid] # tasks[sid]
    /\ ~tasks'[sid].must_cancel

\* in this step the task of session sid ends a round: it goes to sleep or,
\* the duration having elapsed, finishes
RoundEnds(sid) ==
    /\ tasks[sid].pc \in {"read", "read_wait"}
    /\ ~tasks[sid].must_cancel
    /\ tasks'[sid].pc \in {"sleep", "done"}

\* in this step the task of session sid completes a round whose reads all
\* returned, and publishes the batch
RoundPublished(sid) ==
    /\ RoundEnds(sid)
    /\ sessions'[sid].error_count = sessions[sid].error_count

\* the websockets registered for a session id
Subscribers(sid) == IF sid \in DOMAIN connections THEN connections[sid] ELSE {}

\* the task of the session was ended by a cancellation
Stopped(sid) ==
    /\ sid \in DOMAIN sessions
    /\ \/ tasks[sid].pc = "cancelled"
       \/ tasks[sid].pc = "done" /\ sessions[sid].status = STOPPING

\* C1: when stop_measurement returns True for a session that was Running
\* when the stop was processed, the session is Completed and its end_time is
\* set, with end_time >= start_time.
C1_StopLeavesCompleted ==
    [][\A c \in Callers :
         ( /\ call[c].op = "stop_measurement"
           /\ call[c].pre = RUNNING
           /\ Returned(c)
           /\ call'[c].ret = "True" )
         => LET s == sessions'[call[c].target]
            IN  /\ s.status = COMPLETED
                /\ s.end_time # None
                /\ s.end_time >= s.start_time]_vars

\* C2: a shutdown that has taken the lock returns, and when it returns every
\* session task has finished, the sensor registry is empty and the manager is
\* no longer initialized.
C2_ShutdownTerminates ==
    /\ \A c \in Callers :
         (call[c].op = "shutdown" /\ call[c].pc = "body")
            ~> (call[c].op = "shutdown" /\ call[c].pc = "done")
    /\ [][\A c \in Callers :
            (call[c].op = "shutdown" /\ Returned(c))
            => /\ \A sid \in DOMAIN tasks' : TaskDone(tasks'[sid])
               /\ sensors' = EmptyMap
               /\ ~is_initialized']_vars

\* C3: every round of a Running session whose reads returned sends one
\* sensor_data message to every websocket subscribed to the session id.
C3_RoundReachesSubscribers ==
    [][\A sid \in DOMAIN tasks :
         RoundPublished(sid)
         => \A w \in Subscribers(sid) :
               delivered'[w].sensor_data = delivered[w].sensor_data + 1]_vars

\* C4: whenever stop_measurement returns True, whatever the interleaving
\* with the start of the session task, the session has been finalized: its
\* status is not Idle, Starting or Running and its end_time is recorded.
C4_StopFinalizes ==
    [][\A c \in Callers :
         ( /\ call[c].op = "stop_measurement"
           /\ Returned(c)
           /\ call'[c].ret = "True" )
         => LET s == sessions'[call[c].target]
            IN  /\ s.status \notin {IDLE, STARTING, RUNNING}
                /\ s.end_time # None]_vars

\* C5 as stated: a read that raises inside the loop increments error_count
\* and leaves the session Running, the task going on to sleep until the next
\* tick.
C5_ReadFailureStaysRunning ==
    [][\A sid \in DOMAIN tasks :
         ReadFailure(sid)
         => /\ sessions'[sid].status = RUNNING
            /\ sessions'[sid].error_count = sessions[sid].error_count + 1
            /\ tasks'[sid].pc = "sleep"]_vars

\* C5 amended: a read that raises inside the loop increments error_count and
\* never sends the session to Error; the session stays Running and the task
\* sleeps until the next tick, unless the duration of the session has elapsed
\* at the end of that round, where the session ends Completed as after any
\* other round.
C5_ReadFailureAbsorbed ==
    [][\A sid \in DOMAIN tasks :
         ReadFailure(sid)
         => /\ sessions'[sid].error_count = sessions[sid].error_count + 1
            /\ sessions'[sid].readings_count = sessions[sid].readings_count
            /\ sessions'[sid].status # ERROR
            /\ IF DurationElapsed(sessions[sid], tasks[sid].t0)
               THEN /\ sessions'[sid].status = COMPLETED
                    /\ sessions'[sid].end_time = now
                    /\ tasks'[sid].pc = "done"
               ELSE /\ sessions'[sid].status = RUNNING
                    /\ sessions'[sid].end_time = None
                    /\ tasks'[sid].pc = "sleep"]_vars

\* a read has failed and the session is still Running, asleep until the
\* next tick
C5_Witness ==
    \E sid \in DOMAIN sessions :
        /\ sessions[sid].error_count > 0
        /\ sessions[sid].status = RUNNING
        /\ tasks[sid].pc = "sleep"

\* C6: a read that raises does not end the round: when sensors remain the
\* task goes on to read the next one, and the readings already gathered in
\* the round are added to readings_count.
C6_RoundReadsEverySensor ==
    [][\A sid \in DOMAIN tasks :
         ReadFailure(sid)
         => IF tasks[sid].idx < Len(sessions[sid].sensor_ids)
            THEN /\ tasks'[sid].pc = "read"
                 /\ tasks'[sid].idx = tasks[sid].idx + 1
            ELSE sessions'[sid].readings_count =
                    sessions[sid].readings_count + tasks[sid].batch]_vars

\* C7: add_sensor for a name that is registered returns False at once and
\* leaves the registry as it is.
C7_DuplicateAddRejected ==
    [][\A c \in Callers :
         (Ran(c, "add_sensor") /\ call[c].target \in DOMAIN sensors)
         => /\ call'[c].pc = "done"
            /\ call'[c].ret = "False"
            /\ call'[c].log = "Sensor already exists"
            /\ sensors' = sensors]_vars

\* a duplicate add_sensor has been rejected, the sensor still registered
C7_Witness ==
    \E c \in Callers :
        /\ call[c].op = "add_sensor"
        /\ call[c].pc = "done"
        /\ call[c].log = "Sensor already exists"
        /\ DOMAIN sensors # {}

\* C8 as stated: start_measurement with a list that holds an unregistered
\* sensor id raises the "Sensor not found" error, adds no session and
\* creates no task.
C8_UnregisteredIsNotFound ==
    [][\A c \in Callers :
         ( /\ Ran(c, "start_measurement")
           /\ \E i \in 1..Len(call[c].ids) :
                 call[c].ids[i] \notin DOMAIN sensors )
         => /\ call'[c].pc = "done"
            /\ call'[c].ret = "ValueError"
            /\ call'[c].log = "Sensor not found"
            /\ sessions' = sessions
            /\ tasks' = tasks]_vars

\* C8 amended: start_measurement with a list that holds an unregistered
\* sensor id raises an error, "Session already exists" when the session id
\* is taken (that check comes first) and "Sensor not found" otherwise; it
\* adds no session and creates no task.
C8_UnregisteredRejected ==
    [][\A c \in Callers :
         ( /\ Ran(c, "start_measurement")
           /\ \E i \in 1..Len(call[c].ids) :
                 call[c].ids[i] \notin DOMAIN sensors )
         => /\ call'[c].pc = "done"
            /\ call'[c].ret = "ValueError"
            /\ call'[c].log = IF call[c].target \in DOMAIN sessions
                              THEN "Session already exists"
                              ELSE "Sensor not found"
            /\ sessions' = sessions
            /\ tasks' = tasks]_vars

\* a start_measurement was refused for an unregistered sensor id while
\* another sensor is registered
C8_Witness ==
    \E c \in Callers :
        /\ call[c].op = "start_measurement"
        /\ call[c].pc = "done"
        /\ call[c].log = "Sensor not found"
        /\ DOMAIN sensors # {}

\* C9: stop_measurement for a session id that does not exist, or for a
\* session that a stop has already ended, returns False and changes nothing.
C9_StopUnknownOrStopped ==
    [][\A c \in Callers :
         ( /\ Ran(c, "stop_measurement")
           /\ \/ call[c].target \notin DOMAIN sessions
              \/ Stopped(call[c].target) )
         => /\ call'[c].pc = "done"
            /\ call'[c].ret = "False"
            /\ sessions' = sessions
            /\ tasks' = tasks]_vars

\* C10: when initialize() of the new sensor fails (its device is unusable)
\* or connect() fails, add_sensor returns False, the registry is as before
\* and the name is not registered, so that it can be added again.
C10_FailedAddRollsBack ==
    [][\A c \in Callers :
         ( \/ /\ Ran(c, "add_sensor")
              /\ is_initialized
              /\ call[c].target \notin DOMAIN sensors
              /\ call[c].driver \in driver_map
              /\ hw[call[c].target] = "fault"
           \/ /\ call[c].op = "add_sensor"
              /\ call[c].pc = "connect"
              /\ call'[c].pc # "connect"
              /\ ~SensorConnect(TRUE) )
         => /\ call'[c].pc = "done"
            /\ call'[c].ret = "False"
            /\ sensors' = sensors
            /\ call[c].target \notin DOMAIN sensors']_vars

\* an add_sensor has failed in initialize() on an initialized manager, and
\* the sensor whose device had failed is registered now
C10_Witness ==
    \E c \in Callers :
        /\ call[c].op = "add_sensor"
        /\ call[c].pc = "done"
        /\ call[c].log = "Failed to initialize sensor"
        /\ is_initialized
        /\ \E n \in Flaky : n \in DOMAIN sensors

\* C11: the factory is total: in every environment and for every driver
\* name create_sensor returns a sensor instance, and for every board type
\* create_board returns a board instance; neither raises.
C11_ResolutionTotal ==
    res.phase \notin {"none", "input"}
    => /\ res.class # Raises
       /\ res.kind = "sensor"
          => res.class \in {"DHT22Driver", "BMP280Driver"} \cup DummySensorClasses
       /\ res.kind = "board"
          => res.class \in {"GPIOBoard", "CustomBoard", "DummyBoard"}

\* C12: the instance the factory returned is usable in every environment:
\* initialize() succeeds on it, and for a sensor connect() and read() then
\* succeed.
C12_ResolvedInstanceUsable ==
    res.phase \in {"initialized", "connected", "read"} => res.ok

\* broadcast p returns in this step
PassEnds(p) == pass[p] # NoPass /\ pass'[p] = NoPass

\* C13: the hub never maps a session id to an empty subscriber set.
C13_NoEmptySubscriberSet ==
    \A sid \in DOMAIN connections : connections[sid] # {}

\* C14: when disconnect(w, sid) removes the last subscriber of a session,
\* the entry of the session is dropped: get_all_sessions does not list the
\* session id and get_connection_count for it is 0.
C14_LastDisconnectDropsSession ==
    [][\A w \in Sockets, sid \in SessionIds :
         ( /\ <<w, sid>> \in DOMAIN endpoints
           /\ endpoints[<<w, sid>>] = "receive"
           /\ <<w, sid>> \notin DOMAIN endpoints'
           /\ sid \in DOMAIN connections
           /\ connections[sid] = {w} )
         => /\ sid \notin get_all_sessions'
            /\ get_connection_count(sid)' = 0]_vars

\* the only subscriber a session ever had was welcomed and has
\* disconnected
C14_Witness ==
    /\ nhub = 1
    /\ npass = 0
    /\ \E w \in Sockets : delivered[w].connected = 1
    /\ DOMAIN endpoints = {}
    /\ get_all_sessions = {}

\* C15: a send that raises does not end the fan-out pass: the pass goes on
\* with every other websocket still pending, and when the pass returns
\* every websocket of the pass was sent the message unless its own send
\* raised.
C15_FailedSendSparesOthers ==
    [][\A p \in PassIds :
         /\ ( /\ pass[p] # NoPass
              /\ pass[p].cur # "-"
              /\ pass'[p].cur = "-"
              /\ wsstate[pass[p].cur] = "dead" )
            => /\ pass'[p] # NoPass
               /\ pass'[p].pending = pass[p].pending \ {pass[p].cur}
               /\ delivered' = delivered
         /\ PassEnds(p)
            => \A w \in pass[p].snapshot :
                  \/ w \in pass[p].raised
                  \/ /\ w \in pass[p].sent
                     /\ delivered[w][pass[p].kind] > 0]_vars

\* in a pass over two websockets the send to one has raised and the other
\* has been sent the message
C15_Witness ==
    \E p \in PassIds :
        /\ pass[p] # NoPass
        /\ pass[p].pending = {}
        /\ pass[p].raised # {}
        /\ pass[p].sent # {}
        /\ \A w \in pass[p].sent : delivered[w][pass[p].kind] > 0

\* C16: a broadcast in progress returns, whatever the condition of the
\* subscribers: a websocket whose send never completes does not keep the
\* pass from reaching the other subscribers and ending.
C16_HungSubscriberDoesNotBlock ==
    \A p \in PassIds :
        /\ (pass[p] # NoPass) ~> (pass[p] = NoPass)
        /\ \A w \in Sockets :
             (pass[p] # NoPass /\ w \in pass[p].pending /\ wsstate[w] = "ok")
                ~> (w \notin pass[p].pending \/ wsstate[w] # "ok")

\* C17: when a broadcast of any of the three message classes returns, the
\* websockets whose send raised in that pass are no longer subscribers of
\* the session.
C17_FailedSubscriberRemoved ==
    [][\A p \in PassIds :
         PassEnds(p)
         => (pass[p].sid \in DOMAIN connections'
             => connections'[pass[p].sid] \cap pass[p].raised = {})]_vars

\* C18: start_measurement with a session id that exists is rejected and
\* leaves every session and every task as it is; a task is only ever
\* created for a session id that has no session, so that no session id gets
\* a second task.
C18_SessionIdUnique ==
    [][/\ \A c \in Callers :
            (Ran(c, "start_measurement") /\ call[c].target \in DOMAIN sessions)
            => /\ call'[c].pc = "done"
               /\ call'[c].ret = "ValueError"
               /\ call'[c].log = "Session already exists"
               /\ sessions' = sessions
               /\ tasks' = tasks
       /\ \A sid \in SessionIds :
            ( /\ sid \in DOMAIN tasks'
              /\ \/ sid \notin DOMAIN tasks
                 \/ tasks'[sid].pc = "unstarted" /\ tasks[sid].pc # "unstarted" )
            => sid \notin DOMAIN sessions]_vars

\* a second start_measurement for the id of a Running session was rejected
C18_Witness ==
    \E c \in Callers, sid \in DOMAIN sessions :
        /\ call[c].op = "start_measurement"
        /\ call[c].pc = "done"
        /\ call[c].log = "Session already exists"
        /\ sessions[sid].status = RUNNING
        /\ tasks[sid].pc = "sleep"

\* the status assignments of _measurement_loop: Idle -> Starting -> Running
\* -> {Completed, Stopping, Error}; no status is assigned after Stopping
StatusEdges ==
    { <<IDLE, STARTING>>, <<STARTING, RUNNING>>, <<RUNNING, COMPLETED>>,
      <<RUNNING, STOPPING>>, <<RUNNING, ERROR>> }

\* b is reached from a along one edge, or along up to n more
RECURSIVE StatusPath(_, _, _)
StatusPath(a, b, n) ==
    \/ <<a, b>> \in StatusEdges
    \/ /\ n > 0
       /\ \E x \in MeasurementStatus :
            <<a, x>> \in StatusEdges /\ StatusPath(x, b, n - 1)

\* C19: a session is created Idle, every change of its status goes forward
\* along an edge of the state machine (or two in one run of the task, which
\* sets Starting and Running without suspending in between), and
\* a session that is Completed or Error never changes status again.
C19_StatusFollowsStateMachine ==
    [][\A sid \in SessionIds :
         /\ (sid \notin DOMAIN sessions /\ sid \in DOMAIN sessions')
            => sessions'[sid].status = IDLE
         /\ (sid \in DOMAIN sessions)
            => /\ sid \in DOMAIN sessions'
               /\ sessions'[sid].status # sessions[sid].status
                  => StatusPath(sessions[sid].status, sessions'[sid].status, 1)
               /\ sessions[sid].status \in {COMPLETED, ERROR}
                  => sessions'[sid].status = sessions[sid].status]_vars

\* a session has completed with its duration and a stop_measurement on it
\* has returned since, the session still Completed
C19_Witness ==
    \E c \in Callers, sid \in DOMAIN sessions :
        /\ sessions[sid].status = COMPLETED
        /\ call[c].op = "stop_measurement"
        /\ call[c].pc = "done"
        /\ call[c].ret = "True"

\* C20: when start_measurement returns the new session, the session has
\* left Idle: its status is Starting or Running.
C20_StartLeavesIdle ==
    [][\A c \in Callers :
         ( /\ Ran(c, "start_measurement")
           /\ call'[c].pc = "done"
           /\ call'[c].ret = "session" )
         => sessions'[call[c].target].status \in {STARTING, RUNNING}]_vars

----------------------------------------------------------------------------
(* Sessions of a limited duration *)

\* the sampling rounds the session has performed
SessionRounds(sid) == tasks[sid].rounds

\* C21: a session whose duration is twice its interval and whose reads all
\* return performs at most three sampling rounds, is never in Error or
\* Stopping, and once its task has finished it is Completed after one, two
\* or three rounds.
C21_TwoIntervalSession ==
    \A sid \in DOMAIN sessions :
        LET sess == sessions[sid]
        IN  (sess.duration = 2 * sess.interval /\ sess.error_count = 0)
            => /\ sess.status \notin {ERROR, STOPPING}
               /\ SessionRounds(sid) <= 3
               /\ tasks[sid].pc = "done"
                    => /\ sess.status = COMPLETED
                       /\ SessionRounds(sid) \in 1..3

\* a session of two intervals has completed after three rounds without a
\* failed read
C21_Witness ==
    \E sid \in DOMAIN sessions :
        /\ sessions[sid].duration = 2 * sessions[sid].interval
        /\ sessions[sid].error_count = 0
        /\ tasks[sid].pc = "done"
        /\ sessions[sid].status = COMPLETED
        /\ SessionRounds(sid) = 3

\* C22: a session over one sensor with two entities, interval 1 and
\* duration 3, whose reads all return, ends Completed with a
\* readings_count of 2 rounds x 2 entities = 4.
C22_ThreeSecondWindowCount ==
    \A sid \in DOMAIN sessions :
        LET sess == sessions[sid]
        IN  ( /\ sess.sensor_ids = <<"a">>
              /\ EntityCount(sensors["a"].driver) = 2
              /\ sess.interval = 1
              /\ sess.duration = 3
              /\ sess.error_count = 0
              /\ tasks[sid].pc = "done" )
            => /\ sess.status = COMPLETED
               /\ sess.readings_count = 2 * EntityCount(sensors["a"].driver)

\* C23: in every step of a session's life (rounds that succeed, rounds that
\* fail, the cancellation, the completion) readings_count and error_count
\* stay or grow.
C23_CountersNeverDecrease ==
    [][\A sid \in DOMAIN sessions :
          /\ sid \in DOMAIN sessions'
          /\ sessions'[sid].readings_count >= sessions[sid].readings_count
          /\ sessions'[sid].error_count >= sessions[sid].error_count]_vars

\* a session that counted readings and a failed round was cancelled
C23_Witness ==
    \E sid \in DOMAIN sessions :
        /\ sessions[sid].status = STOPPING
        /\ sessions[sid].readings_count > 0
        /\ sessions[sid].error_count > 0

----------------------------------------------------------------------------
(* The sensor drivers *)

\* the entity of the sensor instance that a reading names, if any
EntityOf(reading) ==
    { get_entities[i] : i \in { j \in 1..Len(get_entities) :
                                  get_entities[j].id = reading.entity_id } }

\* C24: whatever the sensor variant and the calibration, every reading that
\* read() returns names an entity of the sensor and has a value inside that
\* entity's [min_value, max_value].
C24_ReadingsWithinBounds ==
    (res.phase = "driver" /\ res.out = "returned")
    => \A i \in 1..Len(res.readings) :
          \E e \in EntityOf(res.readings[i]) :
             /\ res.readings[i].value >= e.min_value
             /\ res.readings[i].value <= e.max_value

\* C25: whatever the sensor variant and the outcome of read(), every reading
\* it returns carries the id of one of the entities get_entities() lists for
\* the same sensor.
C25_ReadingsNameOwnEntities ==
    (res.phase = "driver" /\ res.out = "returned")
    => \A i \in 1..Len(res.readings) : EntityOf(res.readings[i]) # {}

\* a DHT22 whose device raised returned its two readings of quality 0
C25_Witness ==
    /\ res.phase = "driver"
    /\ res.class = "DHT22Driver"
    /\ res.out = "returned"
    /\ Len(res.readings) = 2
    /\ \A i \in 1..2 : res.readings[i].quality = 0

----------------------------------------------------------------------------
(* The resolution order of DriverFactory.create_sensor *)

\* C26: create_sensor returns the real driver exactly when dummy mode is not
\* forced, the driver name is in the real-driver map and the real class
\* loads and constructs; in every other case it returns a simulator, the
\* specific one when the name has one and it loads, the generic one
\* otherwise. With dummy mode forced no real driver is constructed.
C26_ResolutionOrder ==
    (res.phase \in {"created", "initialized", "connected", "read"} /\ res.kind = "sensor")
    => LET env == res.env
           forced == env.use_dummy_drivers \/ env.win32
           real == /\ ~forced
                   /\ res.name \in DOMAIN SENSOR_DRIVERS
                   /\ SENSOR_DRIVERS[res.name] \in ExistingClasses
                   /\ env.real_ok
           specific == res.name \in DOMAIN dummy_drivers /\ env.specific_ok
       IN  /\ real => res.class = SENSOR_DRIVERS[res.name]
           /\ (~real /\ specific) => res.class = dummy_drivers[res.name]
           /\ (~real /\ ~specific) => res.class = "DummySensorDriver"
           /\ forced => res.class \in DummySensorClasses

\* with dummy mode forced by the settings, a name of the real-driver map
\* was resolved to its specific simulator
C26_Witness ==
    /\ res.phase = "created"
    /\ res.kind = "sensor"
    /\ res.env.use_dummy_drivers
    /\ res.env.real_ok
    /\ res.name = "DHT22"
    /\ res.class = "DHT22DummyDriver"

----------------------------------------------------------------------------
(* add_sensor and the resolver *)

\* C27: add_sensor on an initialized manager, for a new sensor id and a
\* driver name of the resolver's map, resolves the name to an instance (real
\* or simulated) that initializes, and goes on to connect and register it.
C27_AddSensorUsesResolver ==
    [][\A c \in Callers :
          ( /\ Ran(c, "add_sensor")
            /\ is_initialized
            /\ call[c].target \notin DOMAIN sensors
            /\ call[c].driver \in DOMAIN SENSOR_DRIVERS )
          => call'[c].pc = "connect"]_vars

----------------------------------------------------------------------------
(* Concurrent add_sensor calls for one sensor id *)

\* the request of caller c is past the acquisition of the lock
InCritical(c) == call[c].pc \in {"body", "connect"}

\* both clients made one add_sensor call for the id and both have returned
BothReturned ==
    /\ ncalls = 2
    /\ \A c \in Callers :
          /\ call[c].op = "add_sensor"
          /\ call[c].pc = "done"

\* the clients whose add_sensor call returned r
Answered(r) == { c \in Callers : call[c].ret = r }

\* the add_sensor call of caller c failed at its own sensor: the driver
\* could not be created or its initialize() failed
OwnFailure(c) == call[c].log \in {"Failed to add sensor", "Failed to initialize sensor"}

\* two add_sensor calls for the same sensor id that overlap are serialized
\* by the lock, never both between the duplicate check and the
\* registration, and a registered instance is not replaced
SerializedAdds ==
    /\ \A c, d \in Callers : (c # d) => ~(InCritical(c)' /\ InCritical(d)')
    /\ \A n \in DOMAIN sensors :
          n \in DOMAIN sensors' /\ sensors'[n] = sensors[n]

----------------------------------------------------------------------------
(* Removing a sensor that a session reads *)

\* a sensor id whose read the round of session sid has still to begin is
\* not registered
ReadsRemoved(sid) ==
    LET first == IF tasks[sid].pc = "read_wait"
                 THEN tasks[sid].idx + 1
                 ELSE tasks[sid].idx
    IN  \E i \in first..Len(sessions[sid].sensor_ids) :
            sessions[sid].sensor_ids[i] \notin DOMAIN sensors

\* remove_sensor of a registered sensor returns True and takes it out of
\* the registry whatever sessions reference it, and changes no session and
\* no task
RemovalSucceeds ==
    \A c \in Callers :
        (Ran(c, "remove_sensor") /\ call[c].target \in DOMAIN sensors)
        => /\ Returned(c)
           /\ call'[c].ret = "True"
           /\ call[c].target \notin DOMAIN sensors'
           /\ sessions' = sessions
           /\ tasks' = tasks

\* a remove_sensor call has returned True that took out a sensor of the
\* list of session sid while the session was Running, and the round the
\* task of the session is in began after that
RemovedUnder(sid) ==
    \E c \in Callers :
        /\ call[c].op = "remove_sensor"
        /\ call[c].pc = "done"
        /\ call[c].ret = "True"
        /\ sid \in DOMAIN call[c].found
        /\ tasks[sid].rounds + 1 >= call[c].found[sid]

----------------------------------------------------------------------------
(* Read attempts that fail at the device *)

\* in this step a read of the task of session sid accesses the device of
\* its sensor, and the device fails the attempt
DeviceFails(sid) ==
    /\ ~tasks[sid].must_cancel
    /\ \/ /\ tasks[sid].pc = "read"
          /\ ReadName(sid) \in DOMAIN sensors
          /\ ~ReadWaits(ReadName(sid))
       \/ tasks[sid].pc = "read_wait"
    /\ hw[ReadName(sid)] \in {"transient", "fault"}
    /\ tasks'[sid] # tasks[sid]
    /\ ~tasks'[sid].must_cancel

\* C30: whenever the read attempt of a sensor fails at the device during a
\* round, the round counts the failure in error_count and adds nothing to
\* readings_count.
C30_FailedReadCounted ==
    [][\A sid \in DOMAIN tasks :
          DeviceFails(sid)
          => /\ sessions'[sid].error_count = sessions[sid].error_count + 1
             /\ sessions'[sid].readings_count = sessions[sid].readings_count
             /\ tasks'[sid].batch = 0]_vars

----------------------------------------------------------------------------
(* The sensor endpoints and the manager's registry *)

\* C31: a sensor the add-sensor endpoint added with success is registered
\* in the manager, listed by its list_sensors, and a start_measurement for a
\* new session id that references only sensors added through the endpoint
\* is accepted.
C31_EndpointRegistersInManager ==
    [][ /\ (res.phase = "api" /\ res' # res /\ res'.status = 201)
             => DOMAIN res'.sensor_instances \subseteq list_sensors'
        /\ \A c \in Callers :
              ( /\ res.phase = "api"
                /\ Ran(c, "start_measurement")
                /\ call[c].target \notin DOMAIN sessions
                /\ \A i \in 1..Len(call[c].ids) :
                      call[c].ids[i] \in DOMAIN res.sensor_instances )
              => call'[c].ret = "session" ]_vars

----------------------------------------------------------------------------
(* The terminal snapshot of a session *)

\* SensorManager.get_session_info: the fields of to_dict() that describe
\* the outcome of the session
get_session_info(sid) ==
    [status |-> sessions[sid].status, end_time |-> sessions[sid].end_time,
     readings_count |-> sessions[sid].readings_count,
     error_count |-> sessions[sid].error_count]

----------------------------------------------------------------------------
(* Calibration *)

\* the value read() passes to apply_calibration for the entity
CalibrationInput(d, e) ==
    IF d.class \in DummySensorClasses
    THEN Clamp(d.raw[e.id[2]], e.min_value, e.max_value)
    ELSE d.raw[e.id[2]]

\* C33: the value of every reading read() returns from a measurement is
\* the raw value when the calibration has no entry for the entity, and
\* otherwise (raw + offset) x multiplier, the offset applied first.
C33_OffsetThenMultiplier ==
    (res.phase = "driver" /\ res.out = "returned")
    => \A i \in 1..Len(res.readings) :
          LET r == res.readings[i]
          IN  r.quality > 0
              => \E e \in EntityOf(r) :
                    r.value =
                       (CalibrationInput(res, e)
                          + DictGet(res.calibration, <<e.id, "offset">>, 0))
                       * DictGet(res.calibration, <<e.id, "multiplier">>, 1)

----------------------------------------------------------------------------
(* Board operations *)

\* the capability a board advertises for an operation
CapabilityOf(class, op) ==
    CASE op = "read_analog" ->
           IF class = "DummyBoard" THEN "adc" ELSE "analog_input"
      [] op = "set_voltage_level" -> "voltage_control"
      [] op = "get_i2c_bus" -> "i2c"
      [] OTHER -> "spi"

CapabilityOps == {"read_analog", "set_voltage_level", "get_i2c_bus", "get_spi_bus"}

\* the operation returned a value instead of an error or False
Succeeded(b) == b.out \in {"returned", "True", "bus"}

\* C34: on every initialized board variant read_analog, set_voltage_level
\* and the two bus getters succeed only when the board advertises the capability of
\* the operation as available; without it the caller gets an error or
\* False.
C34_UnsupportedOperationFails ==
    ( /\ res.phase = "board"
      /\ res.is_initialized
      /\ res.op \in CapabilityOps
      /\ Succeeded(res) )
    => has_capability(res, CapabilityOf(res.class, res.op))

\* C35: on every board variant, a read_digital of a pin that directly
\* follows a successful write_digital of the pin, the pin still at the
\* level that write drove it to, returns the value written.
C35_WriteThenReadDigital ==
    [][( /\ res.phase = "board"
         /\ res.op = "write_digital"
         /\ res.out = "True"
         /\ PinLevel(res.pin_states, res.pin) = BoolStr(res.value)
         /\ res'.op = "read_digital"
         /\ res'.pin = res.pin
         /\ res'.out # "RuntimeError" )
       => res'.out = BoolStr(res.value)]_vars

----------------------------------------------------------------------------
(* The session table *)

\* C36: no step removes an id from the session table, and a
\* start_measurement with the id of a session whose task has finished is
\* rejected with "already exists", the finished session left as it is.
C36_SessionTableOnlyGrows ==
    [][ /\ DOMAIN sessions \subseteq DOMAIN sessions'
        /\ \A c \in Callers :
              ( /\ Ran(c, "start_measurement")
                /\ call[c].target \in DOMAIN sessions
                /\ TaskDone(tasks[call[c].target]) )
              => /\ call'[c].ret = "ValueError"
                 /\ call'[c].log = "Session already exists"
                 /\ sessions' = sessions ]_vars

\* every session of the table has finished, and a start_measurement was
\* rejected because its id is in the table
C36_Witness ==
    /\ DOMAIN sessions # {}
    /\ \A sid \in DOMAIN sessions : TaskDone(tasks[sid])
    /\ \E c \in Callers :
          /\ call[c].op = "start_measurement"
          /\ call[c].pc = "done"
          /\ call[c].log = "Session already exists"

----------------------------------------------------------------------------
(* Concurrent requests *)

\* C37: under any interleaving of add_sensor, remove_sensor,
\* start_measurement and stop_measurement requests, every request that was
\* issued (waiting for the lock, holding it, or suspended in it) returns;
\* a stop_measurement that awaits the task it cancelled returns too.
C37_EveryCallReturns ==
    \A c \in Callers :
        (call[c].pc \notin {"idle", "done"}) ~> (call[c].pc = "done")

\* a stop_measurement holds the lock and awaits the task it cancelled, which
\* has not run yet, while the other client waits for the lock
C37_Witness ==
    \E c \in Callers, d \in Callers :
        /\ call[c].op = "stop_measurement"
        /\ call[c].pc = "await_task"
        /\ lock_owner = c
        /\ ~TaskDone(tasks[call[c].target])
        /\ call[d].pc = "wait"

----------------------------------------------------------------------------
(* Sessions with a duration *)

\* C38: a session started with a duration (0 included) that nobody stops
\* completes: the round that ends when the time elapsed since the start
\* of the loop has reached the duration leaves the session Completed
\* instead of sleeping for another interval.
C38_GivenDurationCompletes ==
    [][\A sid \in DOMAIN sessions :
          ( /\ RoundEnds(sid)
            /\ sessions[sid].duration # None
            /\ now - tasks[sid].t0 >= sessions[sid].duration )
          => /\ sessions'[sid].status = COMPLETED
             /\ TaskDone(tasks'[sid])]_vars

----------------------------------------------------------------------------
(* The initialized manager *)

\* C39: whenever the manager is initialized it has a board, and that board
\* is one whose initialize() succeeded.
C39_InitializedHasWorkingBoard ==
    is_initialized => (board # NoBoard /\ board.is_initialized)

----------------------------------------------------------------------------
(* Subscribers and their endpoints *)

\* C40: every websocket in a subscriber set of the hub is served by a
\* measurement_websocket endpoint that is still running for that session.
C40_SubscribersHaveEndpoints ==
    \A sid \in DOMAIN connections :
        \A w \in connections[sid] : <<w, sid>> \in DOMAIN endpoints

====
